---- MODULE Spec2Model ----
(***************************************************************************)
(* ShadowTLS v3 server side of "shoes": ClientHello ingest, tag            *)
(* verification, the remote (cover server) and local (embedded TLS)        *)
(* handshake variants, the transition to the ShadowTlsStream and the       *)
(* hand-off to the inner handler.                                          *)
(*                                                                         *)
(* Byte strings are sequences of items.  An item 0..255 is one byte.  An   *)
(* item 255 + n (n >= 1) stands for a run of n payload bytes whose values  *)
(* no decision of the code depends on (bulk record payload); it counts as  *)
(* n bytes in every length and index computation, so that lengths keep     *)
(* their real width (16-bit record length, 5 + 65535 byte buffers).        *)
(***************************************************************************)
EXTENDS Integers, Sequences, FiniteSets, TLC

(* ------------------------------ bounds --------------------------------- *)
\* records the environment (client, cover server, local TLS machine)
\* delivers to one connection after the ClientHello
MaxRecords == 3

(* ------------------------- program constants --------------------------- *)
TLS_HEADER_LEN == 5
U16_MAX == 65535
TLS_FRAME_MAX_LEN == TLS_HEADER_LEN + U16_MAX
CONTENT_TYPE_HANDSHAKE == 22
CONTENT_TYPE_APPLICATION_DATA == 23
HANDSHAKE_TYPE_SERVER_HELLO == 2
HANDSHAKE_TYPE_CLIENT_HELLO == 1
RETRY_REQUEST_RANDOM_BYTES ==
  << 207, 33, 173, 116, 229, 154, 97, 17, 190, 29, 140, 2, 30, 101, 184, 145,
     194, 162, 17, 22, 122, 187, 140, 94, 7, 158, 9, 226, 200, 168, 51, 156 >>

(* ----------------------------- byte strings ---------------------------- *)
IsFill(x) == x > 255
Fill(n) == 255 + n

\* the item positions of s that hold runs
FillPositions(s) == { i \in 1..Len(s) : IsFill(s[i]) }
RECURSIVE RunBytes(_, _)
\* the bytes the runs at the item positions I of s stand for, less one each
RunBytes(s, I) ==
  IF I = {} THEN 0
  ELSE LET i == CHOOSE j \in I : TRUE IN (s[i] - 256) + RunBytes(s, I \ {i})
\* number of bytes of the first k items of s
PrefixLen(s, k) == k + RunBytes(s, { i \in FillPositions(s) : i <= k })
\* number of bytes of a byte string
BLen(s) == Len(s) + RunBytes(s, FillPositions(s))

\* concatenation (adjacent runs are merged, so equal strings are equal values)
Cat(a, b) ==
  IF a = <<>> THEN b
  ELSE IF b = <<>> THEN a
  ELSE IF IsFill(a[Len(a)]) /\ IsFill(b[1])
       THEN SubSeq(a, 1, Len(a) - 1) \o <<a[Len(a)] + b[1] - 255>> \o Tail(b)
       ELSE a \o b

\* how many whole items of s lie within its first n bytes
ItemsWithin(s, n) ==
  LET F == FillPositions(s) IN
  IF F = {} THEN (IF n >= Len(s) THEN Len(s) ELSE IF n < 0 THEN 0 ELSE n)
  ELSE Cardinality({ k \in 1..Len(s) : k + RunBytes(s, { i \in F : i <= k }) <= n })

\* the first n bytes of s (all of s when it is shorter)
Take(s, n) ==
  LET k == ItemsWithin(s, n)
      m == PrefixLen(s, k)
  IN  IF k = Len(s) \/ m = n THEN SubSeq(s, 1, k)
      ELSE SubSeq(s, 1, k) \o << Fill(n - m) >>

\* s without its first n bytes
Drop(s, n) ==
  LET k == ItemsWithin(s, n)
      m == PrefixLen(s, k)
  IN  IF k = Len(s) \/ m = n THEN SubSeq(s, k + 1, Len(s))
      ELSE << s[k + 1] - (n - m) >> \o SubSeq(s, k + 2, Len(s))

\* s[lo..hi) with 0-based byte indices, as a Rust slice
Slice(s, lo, hi) == Take(Drop(s, lo), hi - lo)

Zeros(n) == [i \in 1..n |-> 0]

U16(hi, lo) == hi * 256 + lo
BE16(n) == << (n \div 256) % 256, n % 256 >>
\* (x as u16).wrapping_add(4)
WrappingAdd4(x) == ((x % 65536) + 4) % 65536

RECURSIVE XorBits(_, _, _)
XorBits(a, b, k) ==
  IF k = 0 THEN 0
  ELSE ((a + b) % 2) + 2 * XorBits(a \div 2, b \div 2, k - 1)
XorByte(a, b) == XorBits(a, b, 8)

(* ------------------------------ errors --------------------------------- *)
NoError == [kind |-> "none", msg |-> "", cause |-> "", cause_msg |-> ""]
Error(kind, msg) == [kind |-> kind, msg |-> msg, cause |-> "", cause_msg |-> ""]
\* std::io::Error::other(format!("<msg>: {e}")): the kind becomes Other, the
\* text of e is kept in the message
ErrorOther(msg, e) ==
  [kind |-> "Other", msg |-> msg, cause |-> e.kind, cause_msg |-> e.msg]
\* std::io::Error::new(kind, format!("<msg>: {e}"))
ErrorWrap(kind, msg, e) ==
  [kind |-> kind, msg |-> msg, cause |-> e.kind, cause_msg |-> e.msg]

(* ------------------------ ShadowTlsHmac, XOR key ----------------------- *)
\* the listener's password ("secret") and another one ("nope")
PASSWORD == << 115, 101, 99, 114, 101, 116 >>
OTHER_PASSWORD == << 110, 111, 112, 101 >>

\* the stand-in hash works modulo a prime small enough that products fit
HashMod(x) == x % 32749
RECURSIVE Pow31(_)
Pow31(e) ==
  IF e = 0 THEN 1
  ELSE LET r == Pow31(e \div 2) IN
       IF e % 2 = 0 THEN HashMod(r * r) ELSE HashMod(HashMod(r * r) * 31)
RECURSIVE Poly(_, _, _)
Poly(s, lo, hi) ==
  IF lo > hi THEN 0
  ELSE IF lo = hi THEN HashMod(s[lo] + 1)
  ELSE LET mid == (lo + hi) \div 2 IN
       HashMod(Poly(s, lo, mid) * Pow31(hi - mid) + Poly(s, mid + 1, hi))
\* stand-in for the compression function: a value that depends on every
\* absorbed item and on their order
Mix(h, s) == HashMod(HashMod(h) * Pow31(Len(s) + 1) + Poly(s, 1, Len(s)))

\* aws_lc_rs::hmac::Context::with_key: a context is its key and what it absorbed
HmacNew(key) == [key |-> key, data |-> <<>>]
HmacUpdate(ctx, d) == [ctx EXCEPT !.data = Cat(@, d)]
\* Context::sign: the 20-byte HMAC-SHA1 tag
HmacSign(ctx) ==
  LET h == Mix(Mix(7, ctx.key), ctx.data)
  IN  [i \in 1..20 |->
         IF i = 1 THEN h % 256
         ELSE IF i = 2 THEN (h \div 256) % 256
         ELSE (h * i + i) % 256]
HmacDigest(ctx) == SubSeq(HmacSign(ctx), 1, 4)
HmacFinalizedDigest(ctx) == SubSeq(HmacSign(ctx), 1, 4)

\* digest::Context (SHA-256): what it absorbed; finish gives 32 bytes
XorContextNew(password) == password
XorContextUpdate(ctx, d) == ctx \o d
XorContextFinish(ctx) ==
  LET h == Mix(11, ctx) IN [i \in 1..32 |-> (h * (i + 1) + i) % 256]

\* ShadowTlsServerTarget::new: H0 keyed with the password, the XOR seed
\* context fed with the password
NewTarget(password) ==
  [initial_hmac |-> HmacNew(password),
   initial_xor_context |-> XorContextNew(password)]

\* *byte ^= key over payload.iter_mut().zip(xor.iter().cycle())
XorPayloadKeyNotCycled(payload, key) ==
  [i \in 1..Len(payload) |->
     IF IsFill(payload[i]) THEN payload[i]
     ELSE XorByte(payload[i],
                  key[IF BLen(SubSeq(payload, 1, i)) > Len(key) THEN Len(key)
                      ELSE BLen(SubSeq(payload, 1, i))])]
XorPayload(payload, key) ==
  [i \in 1..Len(payload) |->
     IF IsFill(payload[i]) THEN payload[i]
     ELSE XorByte(payload[i], key[((BLen(SubSeq(payload, 1, i)) - 1) % Len(key)) + 1])]

(* --------------------------- TLS records ------------------------------- *)
MkRecord(ctype, major, minor, payload) ==
  << ctype, major, minor >> \o BE16(BLen(payload)) \o payload

MkExt(type, body) == BE16(type) \o BE16(Len(body)) \o body
SniExt(name) == MkExt(0, BE16(Len(name) + 3) \o <<0>> \o BE16(Len(name)) \o name)
ClientVersionsExt(vs) == MkExt(43, <<Len(vs)>> \o vs)
ServerVersionsExt(v) == MkExt(43, v)
GroupsExt == MkExt(10, << 0, 2, 0, 29 >>)

CLIENT_RANDOM == [i \in 1..32 |-> 64 + i]
SESSION_ID == [i \in 1..32 |-> 128 + i]

\* a ClientHello record: header, handshake header, version, random,
\* session id, one cipher suite, null compression, extensions
MkClientHello(ctype, rminor, cminor, sid, exts) ==
  LET body == << 3, cminor >> \o CLIENT_RANDOM \o <<Len(sid)>> \o sid
              \o << 0, 2, 19, 1 >> \o << 1, 0 >> \o BE16(Len(exts)) \o exts
      payload == << HANDSHAKE_TYPE_CLIENT_HELLO, 0 >> \o BE16(Len(body)) \o body
  IN  MkRecord(ctype, 3, rminor, payload)

\* what a ShadowTLS v3 client holding `password` does to its ClientHello:
\* the last 4 session id bytes become the tag over the frame from offset 5
\* with those 4 bytes zeroed
ClientSignHello(frame, password) ==
  LET h == HmacUpdate(HmacUpdate(HmacUpdate(HmacNew(password),
             Slice(frame, 5, 72)), Zeros(4)), Slice(frame, 76, Len(frame)))
  IN  Slice(frame, 0, 72) \o HmacDigest(h) \o Slice(frame, 76, Len(frame))

(* ----------------------------- ClientHello ------------------------------ *)
NoDigest ==
  [some |-> FALSE, client_hello_digest |-> <<>>,
   client_hello_digest_start_index |-> 0, client_hello_digest_end_index |-> 0]

ClientHelloErr(e) ==
  [err |-> e, client_hello_frame |-> <<>>,
   client_hello_record_legacy_version_major |-> 0,
   client_hello_record_legacy_version_minor |-> 0,
   client_hello_content_version_major |-> 0,
   client_hello_content_version_minor |-> 0,
   parsed_digest |-> NoDigest, requested_server_name |-> <<>>,
   supports_tls13 |-> FALSE]

\* BufReader: a read past the end of the slice is an error value
BufReaderEof == Error("InvalidData", "unexpected end of buffer")

\* variant: a list that offers TLS 1.2 counts as well
VersionListHasTls12Or13(vs) ==
  \E k \in 0..((Len(vs) \div 2) - 1) : vs[2 * k + 1] = 3 /\ vs[2 * k + 2] \in { 3, 4 }
\* for i in (0..len).step_by(2): version_list_bytes[i] == 3 && [i+1] == 4
VersionListHasTls13(vs) ==
  \E k \in 0..((Len(vs) \div 2) - 1) : vs[2 * k + 1] = 3 /\ vs[2 * k + 2] = 4

\* the extensions loop of read_client_hello; e is the extensions slice, pos
\* the reader position, sni is <<>> (None) or <<name>>
RECURSIVE ClientExtensions(_, _, _, _)
ClientExtensions(e, pos, sni, tls13) ==
  IF pos >= Len(e) THEN [err |-> NoError, sni |-> sni, tls13 |-> tls13]
  ELSE IF pos + 4 > Len(e) THEN [err |-> BufReaderEof, sni |-> sni, tls13 |-> tls13]
  ELSE
    LET extension_type == U16(e[pos + 1], e[pos + 2])
        extension_len == U16(e[pos + 3], e[pos + 4])
        q == pos + 4
        fail(x) == [err |-> x, sni |-> sni, tls13 |-> tls13]
    IN
    IF extension_type = 0 THEN
      IF sni # <<>> THEN fail(Error("InvalidData", "multiple server names"))
      ELSE IF q + 3 > Len(e) THEN fail(BufReaderEof)
      ELSE IF e[q + 3] # 0
        THEN fail(Error("InvalidData", "expected server name type to be hostname (0)"))
      ELSE IF q + 5 > Len(e) THEN fail(BufReaderEof)
      ELSE LET server_name_len == U16(e[q + 4], e[q + 5]) IN
           IF q + 5 + server_name_len > Len(e) THEN fail(BufReaderEof)
           ELSE ClientExtensions(e, q + 5 + server_name_len,
                  << SubSeq(e, q + 6, q + 5 + server_name_len) >>, tls13)
    ELSE IF extension_type = 43 THEN
      IF q + 1 > Len(e) THEN fail(BufReaderEof)
      ELSE LET version_list_len == e[q + 1] IN
           IF version_list_len % 2 # 0
             THEN fail(Error("InvalidData", "invalid odd version list length"))
           ELSE IF q + 1 + version_list_len > Len(e) THEN fail(BufReaderEof)
           ELSE ClientExtensions(e, q + 1 + version_list_len, sni,
                  tls13 \/ VersionListHasTls13(SubSeq(e, q + 2, q + 1 + version_list_len)))
    ELSE
      IF q + extension_len > Len(e) THEN fail(BufReaderEof)
      ELSE ClientExtensions(e, q + extension_len, sni, tls13)

\* variant: the candidate tag is taken from the head of the session id
ParsedClientHelloDigestFromHead(p, client_session_id_len) ==
  IF client_session_id_len = 32
  THEN [some |-> TRUE,
        client_hello_digest |-> SubSeq(p, 39 + 1, 39 + 4),
        client_hello_digest_start_index |-> TLS_HEADER_LEN + 39,
        client_hello_digest_end_index |-> TLS_HEADER_LEN + 39 + 4]
  ELSE NoDigest

\* the session id branch of read_client_hello; p is the record payload, whose
\* session id starts behind byte 39 (handshake header 4, version 2, random 32,
\* length 1): client_session_id[28..] and the position behind the session id
ParsedClientHelloDigest(p, client_session_id_len) ==
  IF client_session_id_len = 32
  THEN LET post_session_id_index == 39 + client_session_id_len IN
       [some |-> TRUE,
        client_hello_digest |-> SubSeq(p, 39 + 29, 39 + 32),
        client_hello_digest_start_index |->
          TLS_HEADER_LEN + post_session_id_index - 4,
        client_hello_digest_end_index |->
          TLS_HEADER_LEN + post_session_id_index]
  ELSE NoDigest

\* read_client_hello on the bytes the client delivers: one record header, then
\* the payload it declares.  `input` holds at least that record.
read_client_hello(input) ==
  LET hdr == Slice(input, 0, TLS_HEADER_LEN)
      client_payload_len == U16(hdr[4], hdr[5])
      p == Slice(input, TLS_HEADER_LEN, TLS_HEADER_LEN + client_payload_len)
      n == Len(p)
      fail(msg) == ClientHelloErr(Error("InvalidData", msg))
      eof == ClientHelloErr(BufReaderEof)
  IN
  IF hdr[1] # CONTENT_TYPE_HANDSHAKE THEN fail("expected client handshake")
  ELSE IF n < 1 THEN eof
  ELSE IF p[1] # HANDSHAKE_TYPE_CLIENT_HELLO THEN fail("expected ClientHello")
  ELSE IF n < 4 THEN eof
  ELSE IF (p[2] * 65536 + p[3] * 256 + p[4]) + 4 # client_payload_len
    THEN fail("client hello message length mismatch")
  ELSE IF n < 6 THEN eof
  ELSE IF ~(p[5] = 3 /\ (p[6] = 1 \/ p[6] = 3))
    THEN fail("unexpected ClientHello TLS version")
  ELSE IF n < 39 THEN eof
  ELSE
    LET client_session_id_len == p[39]
        post_session_id_index == 39 + client_session_id_len
    IN
    IF n < post_session_id_index THEN eof
    ELSE
      LET parsed_digest == ParsedClientHelloDigest(p, client_session_id_len)
          a == post_session_id_index
      IN
      IF n < a + 2 THEN eof
      ELSE LET b == a + 2 + U16(p[a + 1], p[a + 2]) IN
      IF n < b THEN eof
      ELSE IF n < b + 1 THEN eof
      ELSE LET c == b + 1 + p[b + 1] IN
      IF n < c THEN eof
      ELSE IF n < c + 2 THEN eof
      ELSE LET client_extensions_len == U16(p[c + 1], p[c + 2]) IN
      IF n < c + 2 + client_extensions_len THEN eof
      ELSE
        LET x == ClientExtensions(SubSeq(p, c + 3, c + 2 + client_extensions_len),
                                  0, <<>>, FALSE)
        IN
        IF x.err # NoError THEN ClientHelloErr(x.err)
        ELSE [err |-> NoError,
              client_hello_frame |-> hdr \o p,
              client_hello_record_legacy_version_major |-> hdr[2],
              client_hello_record_legacy_version_minor |-> hdr[3],
              client_hello_content_version_major |-> p[5],
              client_hello_content_version_minor |-> p[6],
              parsed_digest |-> parsed_digest,
              requested_server_name |-> x.sni,
              supports_tls13 |-> x.tls13]

(* ----------------------------- ServerHello ------------------------------ *)
SERVER_RANDOM == [i \in 1..32 |-> i]

\* a ServerHello record: header, handshake header, version 3.3, random,
\* 32-byte session id echo, cipher suite, compression, extensions
MkServerHello(random, exts) ==
  LET body == << 3, 3 >> \o random \o <<32>> \o SESSION_ID
              \o << 19, 1 >> \o <<0>> \o BE16(Len(exts)) \o exts
      payload == << HANDSHAKE_TYPE_SERVER_HELLO, 0 >> \o BE16(Len(body)) \o body
  IN  MkRecord(CONTENT_TYPE_HANDSHAKE, 3, 3, payload)

ServerHelloOk(random) == [status |-> "ok", err |-> NoError, server_random |-> random]
ServerHelloErr(msg) ==
  [status |-> "err", err |-> Error("InvalidData", msg), server_random |-> <<>>]
\* an index past the end of the frame: the slice index panics
ServerHelloPanic == [status |-> "panic", err |-> NoError, server_random |-> <<>>]

\* if version_bytes[0] != 3 && version_bytes[1] != 4 { return Err(..) }
SupportedVersionRejected(v) == v[1] # 3 /\ v[2] # 4

\* the extensions loop of parse_server_hello: "ok", "none" (no
\* supported_versions seen) or an error message
RECURSIVE ServerExtensions(_, _, _)
ServerExtensions(e, pos, has) ==
  IF pos >= Len(e) THEN (IF has THEN "ok" ELSE "none")
  ELSE IF pos + 2 > Len(e) THEN "failed to read extension type from ServerHello"
  ELSE IF pos + 4 > Len(e) THEN "failed to read extension length from ServerHello"
  ELSE
    LET extension_type == U16(e[pos + 1], e[pos + 2])
        extension_len == U16(e[pos + 3], e[pos + 4])
        q == pos + 4
    IN
    IF extension_type = 43 THEN
      IF q + 2 > Len(e) THEN "failed to read supported version from ServerHello"
      ELSE IF SupportedVersionRejected(SubSeq(e, q + 1, q + 2))
        THEN "expected server supported version to be TLS 1.3 (0x0304)"
      ELSE ServerExtensions(e, q + 2, TRUE)
    ELSE
      IF q + extension_len > Len(e) THEN "failed to skip extension in ServerHello"
      ELSE ServerExtensions(e, q + extension_len, has)

\* parse_server_hello(server_hello_frame); f holds a whole record, f[i + 1]
\* is the code's server_hello_frame[i]
parse_server_hello(f) ==
  LET n == BLen(f)
      server_payload_len == U16(f[4], f[5])
  IN
  IF f[1] # CONTENT_TYPE_HANDSHAKE THEN ServerHelloErr("expected server handshake")
  ELSE IF f[2] # 3 \/ f[3] # 3 THEN ServerHelloErr("unexpected server TLS version")
  ELSE IF n < 6 THEN ServerHelloPanic
  ELSE IF f[6] # HANDSHAKE_TYPE_SERVER_HELLO THEN ServerHelloErr("expected ServerHello")
  ELSE IF n < 9 THEN ServerHelloPanic
  ELSE IF (f[7] * 65536 + f[8] * 256 + f[9]) + 4 # server_payload_len
    THEN ServerHelloErr("server hello message length mismatch")
  ELSE IF n < 11 THEN ServerHelloPanic
  ELSE IF f[10] # 3 \/ f[11] # 3
    THEN ServerHelloErr("expected TLS 1.2 (major/minor 3.3)")
  ELSE IF n < 43 THEN ServerHelloPanic
  ELSE IF Slice(f, 11, 43) = RETRY_REQUEST_RANDOM_BYTES
    THEN ServerHelloErr("server sent a HelloRetryRequest")
  ELSE IF n < 44 THEN ServerHelloPanic
  ELSE IF f[44] # 32 THEN ServerHelloErr("expected session id len 32")
  ELSE IF n < 81 THEN ServerHelloPanic
  ELSE
    LET server_extensions_len == U16(f[80], f[81]) IN
    IF n < 81 + server_extensions_len
      THEN ServerHelloErr("server hello message too short for extensions")
    ELSE
      LET x == ServerExtensions(Slice(f, 81, 81 + server_extensions_len), 0, FALSE) IN
      IF x = "ok" THEN ServerHelloOk(Slice(f, 11, 43))
      ELSE IF x = "none"
        THEN ServerHelloErr("server did not have supported versions extension")
      ELSE ServerHelloErr(x)

(* ------------------------------ inputs --------------------------------- *)
ExtsFull == SniExt(<< 97 >>) \o GroupsExt \o ClientVersionsExt(<< 3, 3, 3, 4 >>)
ExtsNoSni == ClientVersionsExt(<< 3, 4 >>)
ExtsTls12 == SniExt(<< 97 >>) \o ClientVersionsExt(<< 3, 3 >>)
ExtsNoVersions == GroupsExt

HelloGood == ClientSignHello(MkClientHello(22, 1, 3, SESSION_ID, ExtsFull), PASSWORD)
HelloNoSni == ClientSignHello(MkClientHello(22, 1, 3, SESSION_ID, ExtsNoSni), PASSWORD)
\* the ClientHellos a client may open a connection with
ClientHellos ==
  { HelloGood, HelloNoSni,
    \* tag made with another password
    ClientSignHello(MkClientHello(22, 1, 3, SESSION_ID, ExtsFull), OTHER_PASSWORD),
    \* an ordinary TLS client: random session id, no tag
    MkClientHello(22, 1, 3, SESSION_ID, ExtsFull),
    \* a valid tag, one byte of the signed range changed afterwards
    [HelloGood EXCEPT ![Len(HelloGood)] = 5],
    \* empty and 16-byte session ids
    MkClientHello(22, 1, 3, <<>>, ExtsFull),
    MkClientHello(22, 1, 3, SubSeq(SESSION_ID, 1, 16), ExtsFull),
    \* TLS 1.2 only, no supported_versions at all (tag valid)
    ClientSignHello(MkClientHello(22, 1, 3, SESSION_ID, ExtsTls12), PASSWORD),
    ClientSignHello(MkClientHello(22, 1, 3, SESSION_ID, ExtsNoVersions), PASSWORD),
    \* TLS 1.2 only, no tag
    MkClientHello(22, 1, 3, SESSION_ID, ExtsTls12),
    \* record version 3.3, body version 3.1, body version 3.2 (tag valid)
    ClientSignHello(MkClientHello(22, 3, 3, SESSION_ID, ExtsFull), PASSWORD),
    ClientSignHello(MkClientHello(22, 1, 1, SESSION_ID, ExtsFull), PASSWORD),
    ClientSignHello(MkClientHello(22, 1, 2, SESSION_ID, ExtsFull), PASSWORD),
    \* record version 2.1, body versions 2.3 and 3.4 (tag valid)
    [HelloGood EXCEPT ![2] = 2],
    ClientSignHello([MkClientHello(22, 1, 3, SESSION_ID, ExtsFull) EXCEPT ![10] = 2],
                    PASSWORD),
    ClientSignHello(MkClientHello(22, 1, 4, SESSION_ID, ExtsFull), PASSWORD),
    \* not a handshake record, without a tag and with a valid one
    MkClientHello(23, 1, 3, SESSION_ID, ExtsFull),
    [HelloGood EXCEPT ![1] = 23] }

\* extensions for the parser: a server name, groups, supported_versions with
\* and without 0x0304; an unknown extension, a server_name extension and a
\* supported_versions extension whose declared length reaches past their own
\* content, over bytes that read like a supported_versions extension
ParseExtensions ==
  { SniExt(<< 97 >>), GroupsExt,
    ClientVersionsExt(<< 3, 4 >>), ClientVersionsExt(<< 3, 3 >>),
    ClientVersionsExt(<< 3, 3, 3, 4 >>),
    MkExt(10, ClientVersionsExt(<< 3, 4 >>)),
    MkExt(0, << 0, 4, 0, 0, 1, 97 >> \o ClientVersionsExt(<< 3, 4 >>)),
    MkExt(43, << 2, 3, 3 >> \o ClientVersionsExt(<< 3, 4 >>)) }
\* tagged ClientHellos with none, one or two of them
ParseHellos ==
  { ClientSignHello(MkClientHello(22, 1, 3, SESSION_ID, a \o b), PASSWORD) :
      a \in ParseExtensions \cup { <<>> }, b \in ParseExtensions \cup { <<>> } }

ServerExtsGood == MkExt(51, << 0, 29, 0, 1, 9 >>) \o ServerVersionsExt(<< 3, 4 >>)
ServerHelloGood == MkServerHello(SERVER_RANDOM, ServerExtsGood)
\* what the cover server may answer the ClientHello with
CoverFirstRecords ==
  { ServerHelloGood,
    MkServerHello(SERVER_RANDOM, ServerVersionsExt(<< 3, 3 >>)),
    MkServerHello(SERVER_RANDOM, ServerVersionsExt(<< 4, 3 >>)),
    MkServerHello(SERVER_RANDOM, MkExt(51, << 0, 29, 0, 1, 9 >>)),
    MkServerHello(RETRY_REQUEST_RANDOM_BYTES, ServerExtsGood),
    \* an alert, and a handshake record with an empty payload
    MkRecord(21, 3, 3, << 2, 40 >>),
    MkRecord(CONTENT_TYPE_HANDSHAKE, 3, 3, <<>>),
    \* a ServerHello message of two bytes: the version and nothing behind it
    MkRecord(CONTENT_TYPE_HANDSHAKE, 3, 3, << 2, 0, 0, 2, 3, 3 >>) }

ChangeCipherSpec == MkRecord(20, 3, 3, << 1 >>)
\* records of the cover server (or of the local TLS machine) after ServerHello
ServerRecords ==
  { ChangeCipherSpec,
    MkRecord(CONTENT_TYPE_APPLICATION_DATA, 3, 3, [i \in 1..34 |-> 9 + i]),
    MkRecord(CONTENT_TYPE_APPLICATION_DATA, 3, 3, << 7, Fill(65530) >>),
    MkRecord(CONTENT_TYPE_APPLICATION_DATA, 3, 3, << 7, Fill(65532) >>) }

\* the record a ShadowTLS v3 client switches with: tag over the data under
\* the client context hc, then the data
ClientDataRecord(ctype, hc, data) ==
  MkRecord(ctype, 3, 3, HmacDigest(HmacUpdate(hc, data)) \o data)

\* records a client may send after its ClientHello
ClientRecords(hc) ==
  { ChangeCipherSpec,
    \* e.g. the encrypted Finished of the cover handshake
    MkRecord(CONTENT_TYPE_APPLICATION_DATA, 3, 3, << 1, 2, 3, 4, 5, 6 >>),
    ClientDataRecord(CONTENT_TYPE_APPLICATION_DATA, hc, << 112, 105 >>),
    ClientDataRecord(CONTENT_TYPE_APPLICATION_DATA, hc, <<>>),
    \* the same bytes under another content type
    ClientDataRecord(CONTENT_TYPE_HANDSHAKE, hc, << 112, 105 >>),
    \* shorter than a tag
    MkRecord(CONTENT_TYPE_APPLICATION_DATA, 3, 3, << 9, 9 >>) }

(* ------------------------------- state --------------------------------- *)
VARIABLES
  handshake,            \* target.handshake: "Remote" or "Local"
  next_proxy_index,     \* Remote { next_proxy_index }
  pc,                   \* where the connection's task stands
  parsed,               \* the ParsedClientHello
  client_in,            \* bytes read from the client transport so far
  client_reader,        \* bytes buffered in client_reader, not yet parsed
  client_out,           \* what was written to the client transport, write by write
  cover,                \* connection to the cover server: "none", "open", "shutdown"
  connector,            \* index of the connector chosen, -1 before that
  cover_in,             \* bytes read from the cover server so far
  cover_out,            \* what was written to the cover server, write by write
  server_hello_frame,
  hmac_server_random, hmac_client_data, hmac_server_data, server_app_data_xor,
  server_connection,    \* the local TLS machine: bytes fed, bytes it wants to write
  server_data,          \* server_data[0..server_data_end_index]
  stream,               \* the ShadowTlsStream returned by the handshake
  result,               \* what setup_shadowtls_server_stream returned
  records,              \* records delivered to this connection after the ClientHello
  wire,                 \* the remote tee loop seen one await at a time
  fetched,              \* what next_proxy_index.fetch_add returned, in order
  target,               \* the listener's ShadowTlsServerTarget: H0 and XOR seed
  port_forward,         \* a PortForwardServerHandler: targets, next_target_index
  calls                 \* its calls of setup_server_stream, in order of entry

vars == << handshake, next_proxy_index, pc, parsed, client_in, client_reader,
           client_out, cover, connector, cover_in, cover_out, server_hello_frame,
           hmac_server_random, hmac_client_data, hmac_server_data,
           server_app_data_xor, server_connection, server_data, stream, result,
           records, wire, fetched, target, port_forward, calls >>

\* target.initial_hmac, target.initial_xor_context: what every connection of
\* the listener clones its contexts from
initial_hmac == target.initial_hmac
initial_xor_context == target.initial_xor_context

\* client_connectors.len()
NumConnectors == 2
\* let index = next_proxy_index.fetch_add(1, Ordering::Relaxed), as it is
\* handed to this connection (own) or to another one of the listener, with
\* the connector chosen by it
Fetch(own, index) ==
  [own |-> own, index |-> index, connector |-> index % NumConnectors]

NoHmac == [key |-> <<>>, data |-> <<>>]
\* the ShadowTlsStream: what it was made from (initial_read_data, hmac_client,
\* hmac_server), its rolling contexts (h_c, h_s), plaintext not yet delivered
\* (read_buffer), what the inner handler read through it (reads), the bytes
\* it took from the client transport it owns (transport_read) and the
\* records it wrote to that transport (written)
NoStream ==
  [made |-> FALSE, initial_read_data |-> <<>>, hmac_client |-> NoHmac,
   hmac_server |-> NoHmac, h_c |-> NoHmac, h_s |-> NoHmac,
   read_buffer |-> <<>>, reads |-> <<>>, transport_read |-> <<>>,
   written |-> <<>>]
Pending == [status |-> "pending", err |-> NoError]
\* the remote tee loop between two awaits: the bytes each peer has sent and
\* the loop has not read (from_cover, from_client), the rest of a record a
\* peer has begun to send (cover_rest, client_rest), what server_reader
\* holds, where the loop stands (at), the record it is handling (frame),
\* whether its last write_all still waits for its flush (unflushed), the
\* records each peer has begun to send and the headers the loop has read, the
\* payload of the record the loop switches on (client_payload_bytes) and how
\* the shutdown of the cover ended (shutdown: "none", "done", "failed")
NoWire ==
  [from_cover |-> <<>>, from_client |-> <<>>, cover_rest |-> <<>>,
   client_rest |-> <<>>, server_reader |-> <<>>, at |-> "select",
   frame |-> <<>>, unflushed |-> FALSE, cover_sent |-> 0, client_sent |-> 0,
   server_begun |-> 0, client_begun |-> 0, client_payload_bytes |-> <<>>,
   shutdown |-> "none"]
Failed(e) == [status |-> "err", err |-> e]

\* PortForwardServerHandler::new(targets): the counter is an AtomicU32; with
\* at most MaxCalls calls it stays far below 2^32, so its wrap is not reached
PortForwardNew(targets) == [targets |-> targets, next_target_index |-> 0]

Init ==
  /\ target = NewTarget(PASSWORD)
  /\ port_forward = PortForwardNew(<< "a:1" >>) /\ calls = <<>>
  /\ handshake \in { "Remote", "Local" }
  /\ next_proxy_index = 0
  /\ pc = "read_client_hello"
  /\ parsed = ClientHelloErr(NoError)
  /\ client_in = <<>> /\ client_reader = <<>> /\ client_out = <<>>
  /\ cover = "none" /\ connector = -1 /\ cover_in = <<>> /\ cover_out = <<>>
  /\ server_hello_frame = <<>>
  /\ hmac_server_random = NoHmac /\ hmac_client_data = NoHmac
  /\ hmac_server_data = NoHmac /\ server_app_data_xor = <<>>
  /\ server_connection = [fed |-> <<>>, pending |-> <<>>, written |-> <<>>]
  /\ server_data = <<>>
  /\ stream = NoStream
  /\ result = Pending
  /\ records = 0
  /\ wire = NoWire
  /\ fetched = <<>>

(* --------------------- setup_shadowtls_server_stream ------------------- *)
\* the listener reads the ClientHello before it calls the set-up
ReadClientHelloFrom(hellos) ==
  /\ pc = "read_client_hello"
  /\ \E hello \in hellos :
       /\ client_in' = hello
       /\ parsed' = read_client_hello(hello)
       /\ pc' = IF parsed'.err = NoError THEN "setup" ELSE "rejected_hello"
  /\ UNCHANGED << handshake, next_proxy_index, client_reader, client_out, cover,
                  connector, cover_in, cover_out, server_hello_frame,
                  hmac_server_random, hmac_client_data, hmac_server_data,
                  server_app_data_xor, server_connection, server_data, stream,
                  result, records >>
  /\ UNCHANGED wire
  /\ UNCHANGED fetched
  /\ UNCHANGED << target, port_forward, calls >>
ReadClientHello == ReadClientHelloFrom(ClientHellos)

\* the tag the server computes over the ClientHello: H0 fed with the frame
\* from offset 5 up to the tag, four zero bytes, the rest of the frame
ClientHelloTagSkipsZeros(p) ==
  HmacFinalizedDigest(
    HmacUpdate(
      HmacUpdate(initial_hmac,
        Slice(p.client_hello_frame, TLS_HEADER_LEN,
              p.parsed_digest.client_hello_digest_start_index)),
      Slice(p.client_hello_frame, p.parsed_digest.client_hello_digest_end_index,
            Len(p.client_hello_frame))))
ClientHelloTag(p) ==
  HmacFinalizedDigest(
    HmacUpdate(
      HmacUpdate(
        HmacUpdate(initial_hmac,
          Slice(p.client_hello_frame, TLS_HEADER_LEN,
                p.parsed_digest.client_hello_digest_start_index)),
        Zeros(4)),
      Slice(p.client_hello_frame, p.parsed_digest.client_hello_digest_end_index,
            Len(p.client_hello_frame))))

PreludeOneMessage(p) ==
  IF ~p.parsed_digest.some
    THEN Error("InvalidData", "hmac tag mismatch")
  ELSE IF ~p.supports_tls13
    THEN Error("InvalidData", "client does not support TLS1.3")
  ELSE IF p.client_hello_record_legacy_version_major # 3
          \/ p.client_hello_record_legacy_version_minor # 1
    THEN Error("InvalidData", "expected client TLS record protocol 1.0 (major/minor 3.1)")
  ELSE IF p.client_hello_content_version_major # 3
          \/ p.client_hello_content_version_minor # 3
    THEN Error("InvalidData", "expected client TLS content protocol 1.2 (major/minor 3.3)")
  ELSE IF p.parsed_digest.client_hello_digest # ClientHelloTag(p)
    THEN Error("InvalidData", "hmac tag mismatch")
  ELSE NoError
PreludeAcceptsAll(p) == NoError
\* variant: a ClientHello that names no server is turned away
PreludeNeedsServerName(p) ==
  IF p.requested_server_name = <<>>
    THEN Error("InvalidData", "client did not send a server name")
  ELSE IF ~p.parsed_digest.some
    THEN Error("InvalidData", "client did not send a 32-byte session id")
  ELSE IF ~p.supports_tls13
    THEN Error("InvalidData", "client does not support TLS1.3")
  ELSE IF p.client_hello_record_legacy_version_major # 3
          \/ p.client_hello_record_legacy_version_minor # 1
    THEN Error("InvalidData", "expected client TLS record protocol 1.0 (major/minor 3.1)")
  ELSE IF p.client_hello_content_version_major # 3
          \/ p.client_hello_content_version_minor # 3
    THEN Error("InvalidData", "expected client TLS content protocol 1.2 (major/minor 3.3)")
  ELSE IF p.parsed_digest.client_hello_digest # ClientHelloTag(p)
    THEN Error("InvalidData", "hmac tag mismatch")
  ELSE NoError
\* variant: the version of the record header is not looked at
PreludeSkipsRecordVersion(p) ==
  IF ~p.parsed_digest.some
    THEN Error("InvalidData", "client did not send a 32-byte session id")
  ELSE IF ~p.supports_tls13
    THEN Error("InvalidData", "client does not support TLS1.3")
  ELSE IF p.client_hello_content_version_major # 3
          \/ p.client_hello_content_version_minor # 3
    THEN Error("InvalidData", "expected client TLS content protocol 1.2 (major/minor 3.3)")
  ELSE IF p.parsed_digest.client_hello_digest # ClientHelloTag(p)
    THEN Error("InvalidData", "hmac tag mismatch")
  ELSE NoError
\* the checks before the handshake: NoError, or the error returned
Prelude(p) ==
  IF ~p.parsed_digest.some
    THEN Error("InvalidData", "client did not send a 32-byte session id")
  ELSE IF ~p.supports_tls13
    THEN Error("InvalidData", "client does not support TLS1.3")
  ELSE IF p.client_hello_record_legacy_version_major # 3
          \/ p.client_hello_record_legacy_version_minor # 1
    THEN Error("InvalidData", "expected client TLS record protocol 1.0 (major/minor 3.1)")
  ELSE IF p.client_hello_content_version_major # 3
          \/ p.client_hello_content_version_minor # 3
    THEN Error("InvalidData", "expected client TLS content protocol 1.2 (major/minor 3.3)")
  ELSE IF p.parsed_digest.client_hello_digest # ClientHelloTag(p)
    THEN Error("InvalidData", "hmac tag mismatch")
  ELSE NoError

\* setup_shadowtls_server_stream up to the choice of the handshake variant
SetupFetchAddFirst ==
  /\ pc = "setup"
  /\ IF Prelude(parsed) # NoError
     THEN /\ result' = Failed(Prelude(parsed))
          /\ pc' = "error"
          /\ next_proxy_index' = IF handshake = "Remote" THEN next_proxy_index + 1
                                 ELSE next_proxy_index
          /\ UNCHANGED << connector, fetched >>
     ELSE IF handshake = "Remote"
     THEN /\ next_proxy_index' = next_proxy_index + 1
          /\ connector' = next_proxy_index % NumConnectors
          /\ fetched' = Append(fetched, Fetch(TRUE, next_proxy_index))
          /\ pc' = "remote_connect"
          /\ UNCHANGED result
     ELSE /\ pc' = "local_start"
          /\ UNCHANGED << next_proxy_index, connector, result, fetched >>
  /\ UNCHANGED << handshake, parsed, client_in, client_reader, client_out, cover,
                  cover_in, cover_out, server_hello_frame, hmac_server_random,
                  hmac_client_data, hmac_server_data, server_app_data_xor,
                  server_connection, server_data, stream, records >>
  /\ UNCHANGED wire
  /\ UNCHANGED << target, port_forward, calls >>
Setup ==
  /\ pc = "setup"
  /\ IF Prelude(parsed) # NoError
     THEN /\ result' = Failed(Prelude(parsed))
          /\ pc' = "error"
          /\ UNCHANGED << next_proxy_index, connector, fetched >>
     ELSE IF handshake = "Remote"
     THEN /\ next_proxy_index' = next_proxy_index + 1
          /\ connector' = next_proxy_index % NumConnectors
          /\ fetched' = Append(fetched, Fetch(TRUE, next_proxy_index))
          /\ pc' = "remote_connect"
          /\ UNCHANGED result
     ELSE /\ pc' = "local_start"
          /\ UNCHANGED << next_proxy_index, connector, result, fetched >>
  /\ UNCHANGED << handshake, parsed, client_in, client_reader, client_out, cover,
                  cover_in, cover_out, server_hello_frame, hmac_server_random,
                  hmac_client_data, hmac_server_data, server_app_data_xor,
                  server_connection, server_data, stream, records >>
  /\ UNCHANGED wire
  /\ UNCHANGED << target, port_forward, calls >>

\* connections of the same listener that run beside this one
MaxOtherConnections == 3
OtherConnections == Len(SelectSeq(fetched, LAMBDA f : ~f.own))
\* variant: the counter is loaded and stored back in two steps, so a fetch of
\* another connection in between is lost
OtherConnectionLoadsThenStores ==
  /\ handshake = "Remote"
  /\ OtherConnections < MaxOtherConnections
  /\ \E index \in { next_proxy_index, next_proxy_index - 1 } \cap Nat :
       /\ next_proxy_index' = index + 1
       /\ fetched' = Append(fetched, Fetch(FALSE, index))
  /\ UNCHANGED << handshake, pc, parsed, client_in, client_reader, client_out,
                  cover, connector, cover_in, cover_out, server_hello_frame,
                  hmac_server_random, hmac_client_data, hmac_server_data,
                  server_app_data_xor, server_connection, server_data, stream,
                  result, records, wire, target,
                  port_forward, calls >>
\* variant: the other connection feeds its ClientHello to H0 itself and its
\* ServerRandom to the XOR seed itself, not to clones of them
OtherConnectionUpdatesInPlace ==
  /\ handshake = "Remote"
  /\ OtherConnections < MaxOtherConnections
  /\ next_proxy_index' = next_proxy_index + 1
  /\ fetched' = Append(fetched, Fetch(FALSE, next_proxy_index))
  /\ target' = [initial_hmac |-> HmacUpdate(initial_hmac, << 1, 0, 0, 102 >>),
                initial_xor_context |->
                  XorContextUpdate(initial_xor_context, << 9, 9 >>)]
  /\ UNCHANGED << handshake, pc, parsed, client_in, client_reader, client_out,
                  cover, connector, cover_in, cover_out, server_hello_frame,
                  hmac_server_random, hmac_client_data, hmac_server_data,
                  server_app_data_xor, server_connection, server_data, stream,
                  result, records, wire, port_forward, calls >>
\* another connection of the listener, its ClientHello verified, takes its
\* index: fetch_add is one atomic read-modify-write on the shared counter;
\* its contexts are clones of H0 and of the XOR seed, the target is borrowed
\* shared (&ShadowTlsServerTarget) and stays as it is
OtherConnection ==
  /\ handshake = "Remote"
  /\ OtherConnections < MaxOtherConnections
  /\ next_proxy_index' = next_proxy_index + 1
  /\ fetched' = Append(fetched, Fetch(FALSE, next_proxy_index))
  /\ UNCHANGED << handshake, pc, parsed, client_in, client_reader, client_out,
                  cover, connector, cover_in, cover_out, server_hello_frame,
                  hmac_server_random, hmac_client_data, hmac_server_data,
                  server_app_data_xor, server_connection, server_data, stream,
                  result, records, wire, target,
                  port_forward, calls >>

(* ------------------------- setup_remote_handshake ---------------------- *)
RemoteFailed(e) == Failed(ErrorOther("failed to setup remote handshake", e))

\* connector.connect, then the ClientHello is written to the cover and flushed
RemoteConnect ==
  /\ pc = "remote_connect"
  /\ \E connected \in BOOLEAN :
       IF connected
       THEN /\ cover' = "open"
            /\ cover_out' = << parsed.client_hello_frame >>
            /\ pc' = "remote_server_hello"
            /\ UNCHANGED result
       ELSE /\ result' = RemoteFailed(
                 Error("ConnectionRefused", "failed to connect to remote handshake server"))
            /\ pc' = "error"
            /\ UNCHANGED << cover, cover_out >>
  /\ UNCHANGED << handshake, next_proxy_index, parsed, client_in, client_reader,
                  client_out, connector, cover_in, server_hello_frame,
                  hmac_server_random, hmac_client_data, hmac_server_data,
                  server_app_data_xor, server_connection, server_data, stream,
                  records >>
  /\ UNCHANGED wire
  /\ UNCHANGED fetched
  /\ UNCHANGED << target, port_forward, calls >>

\* hmac_server_random, hmac_client_data, hmac_server_data, server_app_data_xor
ContextServerRandom(server_random) == HmacUpdate(initial_hmac, server_random)
ContextClientData(server_random) == HmacUpdate(ContextServerRandom(server_random), << 67 >>)
ContextServerDataRolled(server_random) ==
  HmacUpdate(HmacUpdate(ContextServerRandom(server_random), << 83 >>), << 83 >>)
ContextServerData(server_random) == HmacUpdate(ContextServerRandom(server_random), << 83 >>)
XorKey(server_random) ==
  XorContextFinish(XorContextUpdate(initial_xor_context, server_random))

\* variant: the record read from the cover is written to the client before it
\* is parsed
RemoteServerHelloWritesFirst ==
  /\ pc = "remote_server_hello"
  /\ \E f \in CoverFirstRecords :
       LET r == parse_server_hello(f) IN
       /\ cover_in' = f
       /\ client_out' = Append(client_out, f)
       /\ IF r.status = "ok"
          THEN /\ server_hello_frame' = f
               /\ hmac_server_random' = ContextServerRandom(r.server_random)
               /\ hmac_client_data' = ContextClientData(r.server_random)
               /\ hmac_server_data' = ContextServerData(r.server_random)
               /\ server_app_data_xor' = XorKey(r.server_random)
               /\ pc' = "tee"
               /\ UNCHANGED result
          ELSE /\ pc' = IF r.status = "panic" THEN "panic" ELSE "error"
               /\ result' = IF r.status = "panic" THEN result
                            ELSE RemoteFailed(ErrorWrap("InvalidData",
                                   "failed to parse ServerHello from remote server", r.err))
               /\ UNCHANGED << server_hello_frame, hmac_server_random,
                               hmac_client_data, hmac_server_data, server_app_data_xor >>
  /\ UNCHANGED << handshake, next_proxy_index, parsed, client_in, client_reader,
                  cover, connector, cover_out, server_connection, server_data,
                  stream, records >>
  /\ UNCHANGED wire
  /\ UNCHANGED fetched
  /\ UNCHANGED << target, port_forward, calls >>
\* one record is read from the cover, parsed as ServerHello and written to
\* the client; then the per-connection contexts are derived
RemoteServerHello ==
  /\ pc = "remote_server_hello"
  /\ \E f \in CoverFirstRecords :
       LET r == parse_server_hello(f) IN
       /\ cover_in' = f
       /\ IF r.status = "ok"
          THEN /\ server_hello_frame' = f
               /\ client_out' = Append(client_out, f)
               /\ hmac_server_random' = ContextServerRandom(r.server_random)
               /\ hmac_client_data' = ContextClientData(r.server_random)
               /\ hmac_server_data' = ContextServerData(r.server_random)
               /\ server_app_data_xor' = XorKey(r.server_random)
               /\ pc' = "tee"
               /\ UNCHANGED result
          ELSE /\ pc' = IF r.status = "panic" THEN "panic" ELSE "error"
               /\ result' = IF r.status = "panic" THEN result
                            ELSE RemoteFailed(ErrorWrap("InvalidData",
                                   "failed to parse ServerHello from remote server", r.err))
               /\ UNCHANGED << server_hello_frame, client_out, hmac_server_random,
                               hmac_client_data, hmac_server_data, server_app_data_xor >>
  /\ UNCHANGED << handshake, next_proxy_index, parsed, client_in, client_reader,
                  cover, connector, cover_out, server_connection, server_data,
                  stream, records >>
  /\ UNCHANGED wire
  /\ UNCHANGED fetched
  /\ UNCHANGED << target, port_forward, calls >>

\* if server_payload_size > TLS_FRAME_MAX_LEN - 4
PayloadTooLarge(server_payload_size) == server_payload_size > TLS_FRAME_MAX_LEN - 4

\* the re-framing of one ApplicationData record held in server_frame: XOR in
\* place, 4 bytes appended, payload moved up by 4, the rolling context fed
\* with the masked payload, its digest written in front, length field + 4
ReframeTagBeforeUpdate(frame, key, h) ==
  LET n == U16(frame[4], frame[5])
      masked == XorPayload(Slice(frame, TLS_HEADER_LEN, TLS_HEADER_LEN + n), key)
  IN  [frame |-> Cat(<< frame[1], frame[2], frame[3] >> \o BE16(WrappingAdd4(n))
                     \o HmacDigest(h), masked),
       hmac |-> HmacUpdate(h, masked)]
Reframe(frame, key, h) ==
  LET server_payload_size == U16(frame[4], frame[5])
      xored == Cat(Slice(frame, 0, TLS_HEADER_LEN),
                   XorPayload(Slice(frame, TLS_HEADER_LEN,
                                    TLS_HEADER_LEN + server_payload_size), key))
      extended == Cat(xored, Zeros(4))
      moved == Cat(Slice(extended, 0, TLS_HEADER_LEN + 4),
                   Slice(extended, TLS_HEADER_LEN, TLS_HEADER_LEN + server_payload_size))
      h1 == HmacUpdate(h, Slice(moved, TLS_HEADER_LEN + 4,
                                TLS_HEADER_LEN + 4 + server_payload_size))
      tagged == Cat(Slice(moved, 0, TLS_HEADER_LEN) \o HmacDigest(h1),
                    Drop(moved, TLS_HEADER_LEN + 4))
  IN  [frame |-> Cat(Slice(tagged, 0, 3) \o BE16(WrappingAdd4(server_payload_size)),
                     Drop(tagged, TLS_HEADER_LEN)),
       hmac |-> h1]

\* tee loop, the branch that reads a record from the cover server
TeeServerAbsorbsEveryRecord ==
  /\ pc = "tee"
  /\ records < MaxRecords
  /\ \E rec \in ServerRecords :
       LET server_payload_size == U16(rec[4], rec[5])
           r == Reframe(rec, server_app_data_xor, hmac_server_random)
       IN
       /\ cover_in' = Cat(cover_in, rec)
       /\ records' = records + 1
       /\ IF rec[1] = CONTENT_TYPE_APPLICATION_DATA
          THEN IF PayloadTooLarge(server_payload_size)
               THEN /\ result' = RemoteFailed(
                         Error("InvalidData", "server payload too large to modify"))
                    /\ pc' = "error"
                    /\ UNCHANGED << client_out, hmac_server_random >>
               ELSE /\ client_out' = Append(client_out, r.frame)
                    /\ hmac_server_random' = r.hmac
                    /\ UNCHANGED << pc, result >>
          ELSE /\ client_out' = Append(client_out, rec)
               /\ hmac_server_random' = HmacUpdate(hmac_server_random,
                                                   Drop(rec, TLS_HEADER_LEN))
               /\ UNCHANGED << pc, result >>
  /\ UNCHANGED << handshake, next_proxy_index, parsed, client_in, client_reader,
                  cover, connector, cover_out, server_hello_frame, hmac_client_data,
                  hmac_server_data, server_app_data_xor, server_connection,
                  server_data, stream >>
  /\ UNCHANGED wire
  /\ UNCHANGED fetched
  /\ UNCHANGED << target, port_forward, calls >>
\* variant: a record that is passed on unchanged is also fed to the
\* client-direction context
TeeServerFeedsClientContext ==
  /\ pc = "tee"
  /\ records < MaxRecords
  /\ \E rec \in ServerRecords :
       LET server_payload_size == U16(rec[4], rec[5])
           r == Reframe(rec, server_app_data_xor, hmac_server_random)
       IN
       /\ cover_in' = Cat(cover_in, rec)
       /\ records' = records + 1
       /\ IF rec[1] = CONTENT_TYPE_APPLICATION_DATA
          THEN IF PayloadTooLarge(server_payload_size)
               THEN /\ result' = RemoteFailed(
                         Error("InvalidData", "server payload too large to modify"))
                    /\ pc' = "error"
                    /\ UNCHANGED << client_out, hmac_server_random, hmac_client_data >>
               ELSE /\ client_out' = Append(client_out, r.frame)
                    /\ hmac_server_random' = r.hmac
                    /\ UNCHANGED << pc, result, hmac_client_data >>
          ELSE /\ client_out' = Append(client_out, rec)
               /\ hmac_client_data' = HmacUpdate(hmac_client_data,
                                                 Drop(rec, TLS_HEADER_LEN))
               /\ UNCHANGED << pc, result, hmac_server_random >>
  /\ UNCHANGED << handshake, next_proxy_index, parsed, client_in, client_reader,
                  cover, connector, cover_out, server_hello_frame,
                  hmac_server_data, server_app_data_xor, server_connection,
                  server_data, stream >>
  /\ UNCHANGED wire
  /\ UNCHANGED fetched
  /\ UNCHANGED << target, port_forward, calls >>
TeeServer ==
  /\ pc = "tee"
  /\ records < MaxRecords
  /\ \E rec \in ServerRecords :
       LET server_payload_size == U16(rec[4], rec[5])
           r == Reframe(rec, server_app_data_xor, hmac_server_random)
       IN
       /\ cover_in' = Cat(cover_in, rec)
       /\ records' = records + 1
       /\ IF rec[1] = CONTENT_TYPE_APPLICATION_DATA
          THEN IF PayloadTooLarge(server_payload_size)
               THEN /\ result' = RemoteFailed(
                         Error("InvalidData", "server payload too large to modify"))
                    /\ pc' = "error"
                    /\ UNCHANGED << client_out, hmac_server_random >>
               ELSE /\ client_out' = Append(client_out, r.frame)
                    /\ hmac_server_random' = r.hmac
                    /\ UNCHANGED << pc, result >>
          ELSE /\ client_out' = Append(client_out, rec)
               /\ UNCHANGED << pc, result, hmac_server_random >>
  /\ UNCHANGED << handshake, next_proxy_index, parsed, client_in, client_reader,
                  cover, connector, cover_out, server_hello_frame, hmac_client_data,
                  hmac_server_data, server_app_data_xor, server_connection,
                  server_data, stream >>
  /\ UNCHANGED wire
  /\ UNCHANGED fetched
  /\ UNCHANGED << target, port_forward, calls >>

(* ------------------------ client records, transition ------------------- *)
\* hmac_client_data.update(initial_client_data);
\* hmac_client_data.update(&hmac_client_data.digest())
RollClientSkipsTag(hc, data) == HmacUpdate(hc, data)
RollClient(hc, data) ==
  LET h1 == HmacUpdate(hc, data) IN HmacUpdate(h1, HmacDigest(h1))

\* what the client transport hands to one read: a record, and possibly more
\* bytes behind it that land in the reader's buffer (<<rec, more>>)
ClientDeliveries(hc) ==
  { << rec, <<>> >> : rec \in ClientRecords(hc) }
  \cup { << rec, MkRecord(CONTENT_TYPE_APPLICATION_DATA, 3, 3, << 1, 2, 3, 4, 5, 6 >>) >> :
           rec \in ClientRecords(hc) }
  \cup { << rec, ClientDataRecord(CONTENT_TYPE_APPLICATION_DATA,
                                  RollClient(hc, Drop(Drop(rec, TLS_HEADER_LEN), 4)),
                                  << 110, 103 >>) >> :
           rec \in { r \in ClientRecords(hc) : BLen(r) >= TLS_HEADER_LEN + 4 } }

DeliveredRecords(d) == IF d[2] = <<>> THEN 1 ELSE 2

\* the reads and the buffer of one pass over a client record: the record is
\* taken from client_reader when it holds one, else from the transport
ClientReads(d) == IF client_reader # <<>> THEN <<>> ELSE Cat(d[1], d[2])
ClientBuffer(d) == IF client_reader # <<>> THEN client_reader ELSE Cat(d[1], d[2])
ClientHeader(buf) == Slice(buf, 0, TLS_HEADER_LEN)
ClientPayloadSize(buf) == U16(buf[4], buf[5])
ClientPayload(buf) == Slice(buf, TLS_HEADER_LEN, TLS_HEADER_LEN + ClientPayloadSize(buf))
\* client_frame: the header, then the payload appended before it is written
ClientFramePayloadOnly(buf) == ClientPayload(buf)
client_frame(buf) == Cat(ClientHeader(buf), ClientPayload(buf))
\* client_reader.unparsed_data() once header and payload are read
Unparsed(buf) == Drop(buf, TLS_HEADER_LEN + ClientPayloadSize(buf))

\* tmp_hmac = hmac_client_data.clone(); tmp_hmac.update(&payload[4..]);
\* tmp_hmac.finalized_digest() == payload[..4]
TagMatchesWholePayload(hc, payload) ==
  HmacFinalizedDigest(HmacUpdate(hc, payload)) = Slice(payload, 0, 4)
TagMatches(hc, payload) ==
  HmacFinalizedDigest(HmacUpdate(hc, Drop(payload, 4))) = Slice(payload, 0, 4)

\* variant: the whole payload, tag included
InitialClientDataWithTag(payload) == payload
\* let initial_client_data = &client_payload_bytes[4..]
initial_client_data(payload) == Drop(payload, 4)

\* ShadowTlsStream::new(server_stream, initial_client_data, hmac_client_data,
\* hmac_server_data, None), then feed_initial_read_data(more) when given
NewStream(initial, hc, hs, more) ==
  [made |-> TRUE, initial_read_data |-> Cat(initial, more),
   hmac_client |-> hc, hmac_server |-> hs, h_c |-> hc, h_s |-> hs,
   read_buffer |-> Cat(initial, more), reads |-> <<>>,
   transport_read |-> <<>>, written |-> <<>>]

\* tee loop, the branch that reads a record from the client
TeeClient ==
  /\ pc = "tee"
  /\ \E d \in (IF client_reader # <<>> THEN { << <<>>, <<>> >> }
               ELSE { x \in ClientDeliveries(hmac_client_data) :
                        records + DeliveredRecords(x) <= MaxRecords }) :
       LET buf == ClientBuffer(d)
           client_content_type == buf[1]
           payload == ClientPayload(buf)
       IN
       /\ client_in' = Cat(client_in, ClientReads(d))
       /\ records' = IF client_reader # <<>> THEN records
                     ELSE records + DeliveredRecords(d)
       /\ IF client_content_type = CONTENT_TYPE_APPLICATION_DATA /\ BLen(payload) < 4
          THEN \* &client_payload_bytes[4..] is out of range: the task panics
               /\ pc' = "panic"
               /\ client_reader' = Unparsed(buf)
               /\ UNCHANGED << cover, cover_out, hmac_client_data, stream >>
          ELSE IF client_content_type = CONTENT_TYPE_APPLICATION_DATA
                  /\ TagMatches(hmac_client_data, payload)
          THEN /\ hmac_client_data' = RollClient(hmac_client_data, Drop(payload, 4))
               /\ cover' = "shutdown"
               /\ stream' = NewStream(initial_client_data(payload), hmac_client_data',
                                      hmac_server_data, Unparsed(buf))
               /\ client_reader' = <<>>
               /\ pc' = "inner_handler"
               /\ UNCHANGED cover_out
          ELSE /\ cover_out' = Append(cover_out, client_frame(buf))
               /\ client_reader' = Unparsed(buf)
               /\ UNCHANGED << pc, cover, hmac_client_data, stream >>
  /\ UNCHANGED << handshake, next_proxy_index, parsed, client_out, connector,
                  cover_in, server_hello_frame, hmac_server_random, hmac_server_data,
                  server_app_data_xor, server_connection, server_data, result >>
  /\ UNCHANGED wire
  /\ UNCHANGED fetched
  /\ UNCHANGED << target, port_forward, calls >>

(* --------------- the remote tee loop, one await at a time -------------- *)
\* what a reader has at hand for its next read_slice: its buffer, then the
\* bytes its transport holds
Readable(buffer, in_flight) == Cat(buffer, in_flight)
WireAt(at) == pc = "tee" /\ wire.at = at
TeeLeaves ==
  UNCHANGED << handshake, next_proxy_index, parsed, connector, server_hello_frame,
               hmac_server_data, server_app_data_xor, server_connection,
               server_data, fetched, target, port_forward, calls >>

\* the records the peers send while the loop is followed await by await: one
\* the loop passes on as it is and one it re-frames; one the loop passes on
\* whatever its type, one it passes on for its tag, the one it switches on
\* and one shorter than a tag
WireServerRecords ==
  { ChangeCipherSpec,
    MkRecord(CONTENT_TYPE_APPLICATION_DATA, 3, 3, [i \in 1..34 |-> 9 + i]) }
WireClientRecords(hc) ==
  { ChangeCipherSpec,
    MkRecord(CONTENT_TYPE_APPLICATION_DATA, 3, 3, << 1, 2, 3, 4, 5, 6 >>),
    ClientDataRecord(CONTENT_TYPE_APPLICATION_DATA, hc, << 112, 105 >>),
    MkRecord(CONTENT_TYPE_APPLICATION_DATA, 3, 3, << 9, 9 >>) }

\* the cover server begins a record: its header arrives, the payload later
CoverSends ==
  /\ pc = "tee" /\ records < MaxRecords /\ wire.cover_rest = <<>>
  /\ \E rec \in WireServerRecords :
       wire' = [wire EXCEPT !.from_cover = Cat(@, Take(rec, TLS_HEADER_LEN)),
                            !.cover_rest = Drop(rec, TLS_HEADER_LEN),
                            !.cover_sent = @ + 1]
  /\ records' = records + 1
  /\ TeeLeaves
  /\ UNCHANGED << pc, client_in, client_reader, client_out, cover, cover_in,
                  cover_out, hmac_server_random, hmac_client_data, stream, result >>

\* the rest of the record the cover server began arrives
CoverDelivers ==
  /\ pc = "tee" /\ wire.cover_rest # <<>>
  /\ wire' = [wire EXCEPT !.from_cover = Cat(@, wire.cover_rest),
                          !.cover_rest = <<>>]
  /\ TeeLeaves
  /\ UNCHANGED << pc, client_in, client_reader, client_out, cover, cover_in,
                  cover_out, hmac_server_random, hmac_client_data, stream, result,
                  records >>

\* the client begins a record
ClientSends ==
  /\ pc = "tee" /\ records < MaxRecords /\ wire.client_rest = <<>>
  /\ \E rec \in WireClientRecords(hmac_client_data) :
       wire' = [wire EXCEPT !.from_client = Cat(@, Take(rec, TLS_HEADER_LEN)),
                            !.client_rest = Drop(rec, TLS_HEADER_LEN),
                            !.client_sent = @ + 1]
  /\ records' = records + 1
  /\ TeeLeaves
  /\ UNCHANGED << pc, client_in, client_reader, client_out, cover, cover_in,
                  cover_out, hmac_server_random, hmac_client_data, stream, result >>

\* the rest of the record the client began arrives
ClientDelivers ==
  /\ pc = "tee" /\ wire.client_rest # <<>>
  /\ wire' = [wire EXCEPT !.from_client = Cat(@, wire.client_rest),
                          !.client_rest = <<>>]
  /\ TeeLeaves
  /\ UNCHANGED << pc, client_in, client_reader, client_out, cover, cover_in,
                  cover_out, hmac_server_random, hmac_client_data, stream, result,
                  records >>

\* variant: the header read the client branch had begun is dropped with the
\* bytes it had taken when the server branch completes
SelectServerDropsClientRead ==
  /\ WireAt("select")
  /\ LET buf == Readable(wire.server_reader, wire.from_cover) IN
     /\ BLen(buf) >= TLS_HEADER_LEN
     /\ cover_in' = Cat(cover_in, wire.from_cover)
     /\ wire' = [wire EXCEPT !.from_cover = <<>>,
                             !.from_client = <<>>,
                             !.server_reader = Drop(buf, TLS_HEADER_LEN),
                             !.frame = Take(buf, TLS_HEADER_LEN),
                             !.at = "server_payload",
                             !.server_begun = @ + 1]
  /\ TeeLeaves
  /\ UNCHANGED << pc, client_in, client_reader, client_out, cover, cover_out,
                  hmac_server_random, hmac_client_data, stream, result, records >>
\* select!: server_reader.read_slice(&mut client_stream, TLS_HEADER_LEN) is
\* the branch that completes
SelectServer ==
  /\ WireAt("select")
  /\ LET buf == Readable(wire.server_reader, wire.from_cover) IN
     /\ BLen(buf) >= TLS_HEADER_LEN
     /\ cover_in' = Cat(cover_in, wire.from_cover)
     /\ wire' = [wire EXCEPT !.from_cover = <<>>,
                             !.server_reader = Drop(buf, TLS_HEADER_LEN),
                             !.frame = Take(buf, TLS_HEADER_LEN),
                             !.at = "server_payload",
                             !.server_begun = @ + 1]
  /\ TeeLeaves
  /\ UNCHANGED << pc, client_in, client_reader, client_out, cover, cover_out,
                  hmac_server_random, hmac_client_data, stream, result, records >>

\* read_slice(&mut client_stream, server_payload_size) can complete
ServerPayloadAtHand ==
  /\ WireAt("server_payload")
  /\ BLen(Readable(wire.server_reader, wire.from_cover))
       >= U16(wire.frame[4], wire.frame[5])

\* the payload of the cover's record is read and the record made ready
ReadServerPayload ==
  /\ ServerPayloadAtHand
  /\ LET server_payload_size == U16(wire.frame[4], wire.frame[5])
         buf == Readable(wire.server_reader, wire.from_cover)
         server_frame == Cat(wire.frame, Take(buf, server_payload_size))
         r == Reframe(server_frame, server_app_data_xor, hmac_server_random)
         read == [wire EXCEPT !.from_cover = <<>>,
                              !.server_reader = Drop(buf, server_payload_size)]
     IN
     /\ cover_in' = Cat(cover_in, wire.from_cover)
     /\ IF server_frame[1] = CONTENT_TYPE_APPLICATION_DATA
        THEN IF PayloadTooLarge(server_payload_size)
             THEN /\ result' = RemoteFailed(
                       Error("InvalidData", "server payload too large to modify"))
                  /\ pc' = "error"
                  /\ wire' = [read EXCEPT !.frame = server_frame]
                  /\ UNCHANGED hmac_server_random
             ELSE /\ wire' = [read EXCEPT !.frame = r.frame, !.at = "server_write"]
                  /\ hmac_server_random' = r.hmac
                  /\ UNCHANGED << pc, result >>
        ELSE /\ wire' = [read EXCEPT !.frame = server_frame, !.at = "server_write"]
             /\ UNCHANGED << pc, result, hmac_server_random >>
  /\ TeeLeaves
  /\ UNCHANGED << client_in, client_reader, client_out, cover, cover_out,
                  hmac_client_data, stream, records >>

\* variant: the branch ends with write_all, the flush left to a later pass
WriteServerFrameUnflushed ==
  /\ WireAt("server_write")
  /\ client_out' = Append(client_out, wire.frame)
  /\ wire' = [wire EXCEPT !.at = "select", !.unflushed = TRUE]
  /\ TeeLeaves
  /\ UNCHANGED << pc, client_in, client_reader, cover, cover_in, cover_out,
                  hmac_server_random, hmac_client_data, stream, result, records >>

\* write_all(&mut server_stream, &server_frame)
WriteServerFrame ==
  /\ WireAt("server_write")
  /\ client_out' = Append(client_out, wire.frame)
  /\ wire' = [wire EXCEPT !.at = "server_flush", !.unflushed = TRUE]
  /\ TeeLeaves
  /\ UNCHANGED << pc, client_in, client_reader, cover, cover_in, cover_out,
                  hmac_server_random, hmac_client_data, stream, result, records >>

\* server_stream.flush(), the end of the branch
FlushServerFrame ==
  /\ WireAt("server_flush")
  /\ wire' = [wire EXCEPT !.at = "select", !.unflushed = FALSE]
  /\ TeeLeaves
  /\ UNCHANGED << pc, client_in, client_reader, client_out, cover, cover_in,
                  cover_out, hmac_server_random, hmac_client_data, stream, result,
                  records >>

\* select!: client_reader.read_slice(&mut server_stream, TLS_HEADER_LEN) is
\* the branch that completes
SelectClient ==
  /\ WireAt("select")
  /\ LET buf == Readable(client_reader, wire.from_client) IN
     /\ BLen(buf) >= TLS_HEADER_LEN
     /\ client_in' = Cat(client_in, wire.from_client)
     /\ client_reader' = Drop(buf, TLS_HEADER_LEN)
     /\ wire' = [wire EXCEPT !.from_client = <<>>,
                             !.frame = Take(buf, TLS_HEADER_LEN),
                             !.at = "client_payload",
                             !.client_begun = @ + 1]
  /\ TeeLeaves
  /\ UNCHANGED << pc, client_out, cover, cover_in, cover_out, hmac_server_random,
                  hmac_client_data, stream, result, records >>

\* read_slice(&mut server_stream, client_payload_size) can complete
ClientPayloadAtHand ==
  /\ WireAt("client_payload")
  /\ BLen(Readable(client_reader, wire.from_client))
       >= U16(wire.frame[4], wire.frame[5])

\* the payload of the client's record is read; a matching ApplicationData
\* record rolls the client context and takes the loop to the shutdown of the
\* cover
ReadClientPayload ==
  /\ ClientPayloadAtHand
  /\ LET client_content_type == wire.frame[1]
         client_payload_size == U16(wire.frame[4], wire.frame[5])
         buf == Readable(client_reader, wire.from_client)
         client_payload_bytes == Take(buf, client_payload_size)
         unparsed_data == Drop(buf, client_payload_size)
         read == [wire EXCEPT !.from_client = <<>>]
     IN
     /\ client_in' = Cat(client_in, wire.from_client)
     /\ IF client_content_type = CONTENT_TYPE_APPLICATION_DATA
           /\ BLen(client_payload_bytes) < 4
        THEN \* &client_payload_bytes[4..] is out of range: the task panics
             /\ pc' = "panic"
             /\ client_reader' = unparsed_data
             /\ wire' = read
             /\ UNCHANGED << cover, hmac_client_data, stream >>
        ELSE IF client_content_type = CONTENT_TYPE_APPLICATION_DATA
                /\ TagMatches(hmac_client_data, client_payload_bytes)
        THEN /\ hmac_client_data' =
                  RollClient(hmac_client_data, Drop(client_payload_bytes, 4))
             /\ client_reader' = unparsed_data
             /\ wire' = [read EXCEPT !.client_payload_bytes = client_payload_bytes,
                                     !.at = "shutdown"]
             /\ UNCHANGED << pc, cover, stream >>
        ELSE /\ client_reader' = unparsed_data
             /\ wire' = [read EXCEPT !.frame = Cat(wire.frame, client_payload_bytes),
                                     !.at = "client_write"]
             /\ UNCHANGED << pc, cover, hmac_client_data, stream >>
  /\ TeeLeaves
  /\ UNCHANGED << client_out, cover_in, cover_out, hmac_server_random, result,
                  records >>

\* variant: client_stream.shutdown().await?, a failed shutdown is returned
ShutdownCoverFailureReturns ==
  /\ WireAt("shutdown")
  /\ cover' = "shutdown"
  /\ \E outcome \in { "done", "failed" } :
       /\ wire' = [wire EXCEPT !.shutdown = outcome]
       /\ IF outcome = "failed"
          THEN /\ result' = RemoteFailed(Error("BrokenPipe", "failed to shut down"))
               /\ pc' = "error"
               /\ UNCHANGED << stream, client_reader >>
          ELSE /\ stream' = NewStream(initial_client_data(wire.client_payload_bytes),
                                      hmac_client_data, hmac_server_data,
                                      client_reader)
               /\ client_reader' = <<>>
               /\ pc' = "inner_handler"
               /\ UNCHANGED result
  /\ TeeLeaves
  /\ UNCHANGED << client_in, client_out, cover_in, cover_out, hmac_server_random,
                  hmac_client_data, records >>
\* let _ = client_stream.shutdown().await: the shutdown of the cover ends one
\* way or the other, its result is thrown away; the ShadowTlsStream is built
\* from payload[4..], fed with client_reader.unparsed_data() and returned
ShutdownCover ==
  /\ WireAt("shutdown")
  /\ cover' = "shutdown"
  /\ \E outcome \in { "done", "failed" } : wire' = [wire EXCEPT !.shutdown = outcome]
  /\ stream' = NewStream(initial_client_data(wire.client_payload_bytes),
                         hmac_client_data, hmac_server_data, client_reader)
  /\ client_reader' = <<>>
  /\ pc' = "inner_handler"
  /\ TeeLeaves
  /\ UNCHANGED << client_in, client_out, cover_in, cover_out, hmac_server_random,
                  hmac_client_data, result, records >>

\* write_all(&mut client_stream, &client_frame)
WriteClientFrame ==
  /\ WireAt("client_write")
  /\ cover_out' = Append(cover_out, wire.frame)
  /\ wire' = [wire EXCEPT !.at = "client_flush", !.unflushed = TRUE]
  /\ TeeLeaves
  /\ UNCHANGED << pc, client_in, client_reader, client_out, cover, cover_in,
                  hmac_server_random, hmac_client_data, stream, result, records >>

\* client_stream.flush(), the end of the branch
FlushClientFrame ==
  /\ WireAt("client_flush")
  /\ wire' = [wire EXCEPT !.at = "select", !.unflushed = FALSE]
  /\ TeeLeaves
  /\ UNCHANGED << pc, client_in, client_reader, client_out, cover, cover_in,
                  cover_out, hmac_server_random, hmac_client_data, stream, result,
                  records >>

\* the io::Error the loop returns when the await it stands at fails; the
\* result of the shutdown is not looked at
TeeFailures(at) ==
  IF at = "shutdown" THEN {}
  ELSE IF at = "select"
  THEN { Error("ConnectionAborted",
               "failed to read TLS header from remote server during handshake"),
         Error("ConnectionAborted",
               "failed to read TLS header from client during handshake") }
  ELSE IF at = "server_payload"
  THEN { Error("ConnectionAborted",
               "failed to read TLS payload from remote server during handshake") }
  ELSE IF at = "server_write"
  THEN { Error("BrokenPipe", "failed to write server frame to client") }
  ELSE IF at = "server_flush"
  THEN { Error("BrokenPipe", "failed to flush server frame to client") }
  ELSE IF at = "client_payload"
  THEN { Error("ConnectionAborted",
               "failed to read TLS payload from client during handshake") }
  ELSE IF at = "client_write"
  THEN { Error("BrokenPipe", "failed to write client frame to remote server") }
  ELSE { Error("BrokenPipe", "failed to flush client frame to remote server") }

\* a read, a write or a flush on one of the two transports fails
TransportFails ==
  /\ pc = "tee"
  /\ \E e \in TeeFailures(wire.at) : result' = RemoteFailed(e)
  /\ pc' = "error"
  /\ TeeLeaves
  /\ UNCHANGED << client_in, client_reader, client_out, cover, cover_in, cover_out,
                  hmac_server_random, hmac_client_data, stream, records, wire >>
(* ----------------------------- ShadowTlsStream -------------------------- *)
\* reads and writes of the inner handler on the stream while it sets the
\* connection up
MaxStreamOps == 2
StreamOps == Len(stream.reads) + Len(stream.written)
\* a read that failed is the last thing the inner handler does with the stream
StreamBroken == \E i \in 1..Len(stream.reads) : ~stream.reads[i].ok
\* "pong"
InnerBodies == { << 112, 111, 110, 103 >> }

\* variant: the rolling context does not absorb what was written
StreamWriteRecordUnrolled(hs, body) ==
  [record |-> << CONTENT_TYPE_APPLICATION_DATA, 3, 3 >> \o BE16(BLen(body) + 4)
              \o HmacDigest(HmacUpdate(hs, body)) \o body,
   hmac |-> hs]
\* write path: one record 0x17 0x03 0x03 be16(L + 4) tag4 body per write; the
\* tag is the digest of the rolling context fed with the body, the context
\* then absorbs the tag
StreamWriteRecord(hs, body) ==
  LET h1 == HmacUpdate(hs, body)
      tag4 == HmacDigest(h1)
  IN  [record |-> << CONTENT_TYPE_APPLICATION_DATA, 3, 3 >> \o BE16(BLen(body) + 4)
                  \o tag4 \o body,
       hmac |-> HmacUpdate(h1, tag4)]

\* variant: the content type of the record is not looked at
StreamReadRecordAnyType(hc, rec) ==
  LET payload == Drop(rec, TLS_HEADER_LEN) IN
  IF BLen(payload) < 4
     \/ HmacFinalizedDigest(HmacUpdate(hc, Drop(payload, 4))) # Take(payload, 4)
  THEN [ok |-> FALSE, err |-> "InvalidData", data |-> <<>>, hmac |-> hc]
  ELSE [ok |-> TRUE, err |-> "", data |-> Drop(payload, 4),
        hmac |-> HmacUpdate(HmacUpdate(hc, Drop(payload, 4)), Take(payload, 4))]
\* read path: one record from the transport; it must be of type 0x17 and
\* start with the digest of a clone of the rolling context fed with
\* payload[4..]; then payload[4..] is delivered and the context absorbs
\* payload[4..] and the tag
StreamReadRecord(hc, rec) ==
  LET payload == Drop(rec, TLS_HEADER_LEN) IN
  IF rec[1] # CONTENT_TYPE_APPLICATION_DATA \/ BLen(payload) < 4
     \/ HmacFinalizedDigest(HmacUpdate(hc, Drop(payload, 4))) # Take(payload, 4)
  THEN [ok |-> FALSE, err |-> "InvalidData", data |-> <<>>, hmac |-> hc]
  ELSE [ok |-> TRUE, err |-> "", data |-> Drop(payload, 4),
        hmac |-> HmacUpdate(HmacUpdate(hc, Drop(payload, 4)), Take(payload, 4))]

\* records the client sends after the transition: a tagged "ng", one whose
\* first four bytes are not the tag, the tagged bytes under the handshake
\* content type, and one too short to hold a tag
StreamClientRecords(hc) ==
  { ClientDataRecord(CONTENT_TYPE_APPLICATION_DATA, hc, << 110, 103 >>),
    MkRecord(CONTENT_TYPE_APPLICATION_DATA, 3, 3, << 1, 2, 3, 4, 5, 6 >>),
    ClientDataRecord(CONTENT_TYPE_HANDSHAKE, hc, << 110, 103 >>),
    MkRecord(CONTENT_TYPE_APPLICATION_DATA, 3, 3, << 9, 9 >>) }

\* the inner handler reads from the stream: the initial read data while
\* there is any, else one record from the transport
StreamRead ==
  /\ pc = "inner_handler"
  /\ StreamOps < MaxStreamOps /\ ~StreamBroken
  /\ IF stream.read_buffer # <<>>
     THEN stream' = [stream EXCEPT
                       !.reads = Append(@, [from |-> "initial", ok |-> TRUE,
                                            err |-> "",
                                            data |-> stream.read_buffer]),
                       !.read_buffer = <<>>]
     ELSE \E rec \in StreamClientRecords(stream.h_c) :
            LET r == StreamReadRecord(stream.h_c, rec) IN
            stream' = [stream EXCEPT
                         !.transport_read = Cat(@, rec),
                         !.h_c = r.hmac,
                         !.reads = Append(@, [from |-> "transport", ok |-> r.ok,
                                              err |-> r.err, data |-> r.data])]
  /\ UNCHANGED << handshake, next_proxy_index, pc, parsed, client_in, client_reader,
                  client_out, cover, connector, cover_in, cover_out,
                  server_hello_frame, hmac_server_random, hmac_client_data,
                  hmac_server_data, server_app_data_xor, server_connection,
                  server_data, result, records >>
  /\ UNCHANGED wire
  /\ UNCHANGED fetched
  /\ UNCHANGED << target, port_forward, calls >>

\* the inner handler writes a body to the stream
StreamWrite ==
  /\ pc = "inner_handler"
  /\ StreamOps < MaxStreamOps /\ ~StreamBroken
  /\ \E body \in InnerBodies :
       LET w == StreamWriteRecord(stream.h_s, body) IN
       stream' = [stream EXCEPT !.h_s = w.hmac, !.written = Append(@, w.record)]
  /\ UNCHANGED << handshake, next_proxy_index, pc, parsed, client_in, client_reader,
                  client_out, cover, connector, cover_in, cover_out,
                  server_hello_frame, hmac_server_random, hmac_client_data,
                  hmac_server_data, server_app_data_xor, server_connection,
                  server_data, result, records >>
  /\ UNCHANGED wire
  /\ UNCHANGED fetched
  /\ UNCHANGED << target, port_forward, calls >>

(* --------------------------- inner-handler hand-off -------------------- *)
\* TcpServerSetupResult as the inner handler may return it
TcpForward(need_initial_flush, override_proxy_provider) ==
  [stream |-> "shadow_tls_stream", need_initial_flush |-> need_initial_flush,
   override_proxy_provider |-> override_proxy_provider,
   variant |-> "TcpForward", remote_location |-> "example.org:443",
   connection_success_response |-> << 5, 0 >>, initial_remote_data |-> << 71 >>]
MultiDirectionalUdp(need_initial_flush, override_proxy_provider) ==
  [stream |-> "shadow_tls_stream", need_initial_flush |-> need_initial_flush,
   override_proxy_provider |-> override_proxy_provider,
   variant |-> "MultiDirectionalUdp", num_sockets |-> 1]
InnerResults ==
  { TcpForward(TRUE, "Unspecified"), TcpForward(FALSE, "None"),
    TcpForward(FALSE, "One(inner)"), MultiDirectionalUdp(FALSE, "Unspecified") }
\* target.override_proxy_provider, a NoneOrOne of the listener's configuration;
\* it is read once, after the inner handler returned, and drawn there
TargetProviders == { "Unspecified", "None", "One(target)" }

override_proxy_provider_unspecified(r) == r.override_proxy_provider = "Unspecified"
set_override_proxy_provider(r, override_proxy_provider) ==
  [r EXCEPT !.override_proxy_provider = override_proxy_provider]
\* if let Ok(ref mut setup_result) = target_setup_result { .. }
HandOffAlwaysSets(setup_result, target_provider) ==
  set_override_proxy_provider(setup_result, target_provider)
HandOff(setup_result, target_provider) ==
  IF override_proxy_provider_unspecified(setup_result) /\ target_provider # "Unspecified"
  THEN set_override_proxy_provider(setup_result, target_provider)
  ELSE setup_result

\* target.handler.setup_server_stream(Box::new(shadow_tls_stream)) returns
InnerHandlerReturns(results, providers) ==
  /\ pc = "inner_handler"
  /\ \E ok \in BOOLEAN :
       IF ok
       THEN /\ \E r \in results : \E t \in providers :
                 result' = [status |-> "ok", err |-> NoError, inner |-> r,
                            target_override_proxy_provider |-> t,
                            value |-> HandOff(r, t)]
            /\ pc' = "done"
       ELSE /\ result' = Failed(ErrorOther("failed to setup server stream after shadow tls",
                                           Error("Other", "inner handler")))
            /\ pc' = "error"
  /\ UNCHANGED << handshake, next_proxy_index, parsed, client_in, client_reader,
                  client_out, cover, connector, cover_in, cover_out,
                  server_hello_frame, hmac_server_random, hmac_client_data,
                  hmac_server_data, server_app_data_xor, server_connection,
                  server_data, stream, records >>
  /\ UNCHANGED wire
  /\ UNCHANGED fetched
  /\ UNCHANGED << target, port_forward, calls >>
\* the inner handler returns any of its results, under any configuration of
\* the target
InnerHandler == InnerHandlerReturns(InnerResults, TargetProviders)
\* the inner handler of a TCP proxy protocol, the target names a provider
InnerHandlerForwards ==
  InnerHandlerReturns({ TcpForward(TRUE, "Unspecified") }, { "One(target)" })

(* ------------------------- setup_local_handshake ----------------------- *)
LocalFailed(e) == Failed(ErrorOther("failed to setup local handshake", e))

SmallAppData == MkRecord(CONTENT_TYPE_APPLICATION_DATA, 3, 3, [i \in 1..34 |-> 9 + i])
\* what the local TLS machine queues when it accepts the ClientHello
LocalFlights ==
  { Cat(ServerHelloGood, Cat(ChangeCipherSpec, SmallAppData)),
    ServerHelloGood,
    \* a TLS 1.2 ServerHello (no supported_versions), an alert, nothing
    MkServerHello(SERVER_RANDOM, MkExt(51, << 0, 29, 0, 1, 9 >>)),
    MkRecord(21, 3, 3, << 2, 40 >>),
    <<>> }

\* a 16384-byte ApplicationData record (e.g. session tickets, certificates)
FullRecord == MkRecord(CONTENT_TYPE_APPLICATION_DATA, 3, 3, << 4, Fill(16378) >>)
\* what the local TLS machine queues after it processed a client record
LocalResponses ==
  { SmallAppData,
    MkRecord(CONTENT_TYPE_APPLICATION_DATA, 3, 3, << 7, Fill(65530) >>),
    MkRecord(CONTENT_TYPE_APPLICATION_DATA, 3, 3, << 7, Fill(65532) >>),
    Cat(FullRecord, Cat(FullRecord, Cat(FullRecord, Cat(FullRecord, FullRecord)))) }

\* feed_server_connection(&mut server_connection, data)
feed_server_connection(conn, data) == [conn EXCEPT !.fed = Cat(@, data)]
\* server_connection.wants_write()
WantsWrite(conn) == conn.pending # <<>>
\* read_server_connection_once(conn, &mut server_data[end..]): one write_tls
\* into the free part of the staging buffer; the number of bytes written
read_server_connection_once(conn, end) ==
  IF BLen(conn.pending) <= TLS_FRAME_MAX_LEN - end
  THEN BLen(conn.pending) ELSE TLS_FRAME_MAX_LEN - end

\* the ClientHello is fed to the TLS machine, its first flight is read into
\* server_data, the ServerHello is parsed and written to the client
LocalStart ==
  /\ pc = "local_start"
  /\ \E accepted \in BOOLEAN : \E flight \in LocalFlights :
       LET server_data_len == BLen(flight)
           server_hello_payload_size == U16(flight[4], flight[5])
           f == Slice(flight, 0, TLS_HEADER_LEN + server_hello_payload_size)
           r == parse_server_hello(f)
           fail(e, w) == /\ result' = LocalFailed(e)
                      /\ pc' = "error"
                      /\ server_connection' =
                           [fed |-> parsed.client_hello_frame, pending |-> <<>>,
                            written |-> w]
                      /\ UNCHANGED << server_hello_frame, client_out, server_data,
                                      hmac_server_random, hmac_client_data,
                                      hmac_server_data, server_app_data_xor >>
       IN
       IF ~accepted
         THEN fail(Error("InvalidData", "failed to process ClientHello packet"), <<>>)
       ELSE IF flight = <<>>
         THEN fail(Error("InvalidData", "server connection wants no write"), <<>>)
       ELSE IF server_data_len < TLS_HEADER_LEN
         THEN fail(Error("InvalidData", "server data too short for header"), flight)
       ELSE IF server_data_len < TLS_HEADER_LEN + server_hello_payload_size
         THEN fail(Error("InvalidData", "server data too short for payload"), flight)
       ELSE IF r.status = "err" THEN fail(r.err, flight)
       ELSE IF r.status = "panic"
         THEN /\ pc' = "panic"
              /\ server_connection' =
                   [fed |-> parsed.client_hello_frame, pending |-> <<>>,
                    written |-> flight]
              /\ UNCHANGED << result, server_hello_frame, client_out, server_data,
                              hmac_server_random, hmac_client_data,
                              hmac_server_data, server_app_data_xor >>
       ELSE /\ server_connection' =
                 [fed |-> parsed.client_hello_frame, pending |-> <<>>,
                  written |-> flight]
            /\ server_hello_frame' = f
            /\ client_out' = Append(client_out, f)
            /\ server_data' = Drop(flight, TLS_HEADER_LEN + server_hello_payload_size)
            /\ hmac_server_random' = ContextServerRandom(r.server_random)
            /\ hmac_client_data' = ContextClientData(r.server_random)
            /\ hmac_server_data' = ContextServerData(r.server_random)
            /\ server_app_data_xor' = XorKey(r.server_random)
            /\ pc' = "local_server_write"
            /\ UNCHANGED result
  /\ UNCHANGED << handshake, next_proxy_index, parsed, client_in, client_reader,
                  cover, connector, cover_in, cover_out, stream, records >>
  /\ UNCHANGED wire
  /\ UNCHANGED fetched
  /\ UNCHANGED << target, port_forward, calls >>

\* if server_data_end_index > TLS_FRAME_MAX_LEN + TLS_HEADER_LEN - 4
StagingTooLarge(server_data_end_index) ==
  server_data_end_index > TLS_FRAME_MAX_LEN + TLS_HEADER_LEN - 4

\* variant: the rolling context is fed with the record header and the masked
\* payload
LocalReframeAbsorbsHeader(data, key, h) ==
  LET server_payload_size == U16(data[4], data[5])
      xored == Cat(Cat(Slice(data, 0, TLS_HEADER_LEN),
                       XorPayload(Slice(data, TLS_HEADER_LEN,
                                        TLS_HEADER_LEN + server_payload_size), key)),
                   Drop(data, TLS_HEADER_LEN + server_payload_size))
      moved == Cat(Slice(xored, 0, TLS_HEADER_LEN + 4), Drop(xored, TLS_HEADER_LEN))
      h1 == HmacUpdate(HmacUpdate(h, Slice(moved, 0, TLS_HEADER_LEN)),
                       Slice(moved, TLS_HEADER_LEN + 4,
                             TLS_HEADER_LEN + 4 + server_payload_size))
      tagged == Cat(Slice(moved, 0, TLS_HEADER_LEN) \o HmacDigest(h1),
                    Drop(moved, TLS_HEADER_LEN + 4))
  IN  [data |-> Cat(Slice(tagged, 0, 3) \o BE16(WrappingAdd4(server_payload_size)),
                    Drop(tagged, TLS_HEADER_LEN)),
       hmac |-> h1]
\* the re-framing of the ApplicationData record at the front of server_data:
\* XOR in place, everything from offset 5 moved up by 4, the rolling context
\* fed with the masked payload, its digest written in front, length field + 4
LocalReframe(data, key, h) ==
  LET server_payload_size == U16(data[4], data[5])
      xored == Cat(Cat(Slice(data, 0, TLS_HEADER_LEN),
                       XorPayload(Slice(data, TLS_HEADER_LEN,
                                        TLS_HEADER_LEN + server_payload_size), key)),
                   Drop(data, TLS_HEADER_LEN + server_payload_size))
      moved == Cat(Slice(xored, 0, TLS_HEADER_LEN + 4), Drop(xored, TLS_HEADER_LEN))
      h1 == HmacUpdate(h, Slice(moved, TLS_HEADER_LEN + 4,
                                TLS_HEADER_LEN + 4 + server_payload_size))
      tagged == Cat(Slice(moved, 0, TLS_HEADER_LEN) \o HmacDigest(h1),
                    Drop(moved, TLS_HEADER_LEN + 4))
  IN  [data |-> Cat(Slice(tagged, 0, 3) \o BE16(WrappingAdd4(server_payload_size)),
                    Drop(tagged, TLS_HEADER_LEN)),
       hmac |-> h1]

\* variant: the server write loop ends as soon as the staging buffer holds
\* less than a header, whether or not the TLS machine wants to write
LocalServerWriteBreaksEarly ==
  /\ pc = "local_server_write"
  /\ LET server_data_end_index == BLen(server_data)
         server_payload_size == U16(server_data[4], server_data[5])
         n == read_server_connection_once(server_connection, server_data_end_index)
         refill == /\ server_data' = Cat(server_data, Take(server_connection.pending, n))
                   /\ server_connection' = [server_connection EXCEPT !.pending = Drop(@, n),
                                                 !.written = Cat(@, Take(server_connection.pending, n))]
                   /\ UNCHANGED << pc, result, client_out, hmac_server_random >>
         break == /\ pc' = "local_client_read"
                  /\ UNCHANGED << server_data, server_connection, result, client_out,
                                  hmac_server_random >>
         fail(e) == /\ result' = LocalFailed(e)
                    /\ pc' = "error"
                    /\ UNCHANGED << server_data, server_connection, client_out,
                                    hmac_server_random >>
         r == LocalReframe(server_data, server_app_data_xor, hmac_server_random)
     IN
     IF server_data_end_index < TLS_HEADER_LEN
       THEN break
     ELSE IF server_data[2] # 3 \/ server_data[3] # 3
       THEN fail(Error("InvalidData", "unexpected local server TLS version"))
     ELSE IF server_data_end_index < TLS_HEADER_LEN + server_payload_size
       THEN IF WantsWrite(server_connection) THEN refill ELSE break
     ELSE IF server_data[1] = CONTENT_TYPE_APPLICATION_DATA
       THEN IF PayloadTooLarge(server_payload_size)
              THEN fail(Error("InvalidData", "server payload too large to modify"))
            ELSE IF StagingTooLarge(server_data_end_index)
              THEN fail(Error("InvalidData", "server data too large to modify"))
            ELSE IF server_data_end_index + 4 > TLS_FRAME_MAX_LEN
              THEN \* copy_within(5..end, 9) past the end of server_data panics
                   /\ pc' = "panic"
                   /\ UNCHANGED << server_data, server_connection, result, client_out,
                                   hmac_server_random >>
            ELSE /\ client_out' = Append(client_out, Slice(r.data, 0, 9 + server_payload_size))
                 /\ server_data' = Drop(r.data, 9 + server_payload_size)
                 /\ hmac_server_random' = r.hmac
                 /\ UNCHANGED << pc, result, server_connection >>
     ELSE /\ client_out' = Append(client_out,
                               Slice(server_data, 0, TLS_HEADER_LEN + server_payload_size))
          /\ server_data' = Drop(server_data, TLS_HEADER_LEN + server_payload_size)
          /\ UNCHANGED << pc, result, server_connection, hmac_server_random >>
  /\ UNCHANGED << handshake, next_proxy_index, parsed, client_in, client_reader,
                  cover, connector, cover_in, cover_out, server_hello_frame,
                  hmac_client_data, hmac_server_data, server_app_data_xor, stream,
                  records >>
  /\ UNCHANGED wire
  /\ UNCHANGED fetched
  /\ UNCHANGED << target, port_forward, calls >>
\* one pass of the server write loop
LocalServerWrite ==
  /\ pc = "local_server_write"
  /\ LET server_data_end_index == BLen(server_data)
         server_payload_size == U16(server_data[4], server_data[5])
         n == read_server_connection_once(server_connection, server_data_end_index)
         refill == /\ server_data' = Cat(server_data, Take(server_connection.pending, n))
                   /\ server_connection' = [server_connection EXCEPT !.pending = Drop(@, n),
                                                 !.written = Cat(@, Take(server_connection.pending, n))]
                   /\ UNCHANGED << pc, result, client_out, hmac_server_random >>
         break == /\ pc' = "local_client_read"
                  /\ UNCHANGED << server_data, server_connection, result, client_out,
                                  hmac_server_random >>
         fail(e) == /\ result' = LocalFailed(e)
                    /\ pc' = "error"
                    /\ UNCHANGED << server_data, server_connection, client_out,
                                    hmac_server_random >>
         r == LocalReframe(server_data, server_app_data_xor, hmac_server_random)
     IN
     IF server_data_end_index < TLS_HEADER_LEN
       THEN IF WantsWrite(server_connection) THEN refill ELSE break
     ELSE IF server_data[2] # 3 \/ server_data[3] # 3
       THEN fail(Error("InvalidData", "unexpected local server TLS version"))
     ELSE IF server_data_end_index < TLS_HEADER_LEN + server_payload_size
       THEN IF WantsWrite(server_connection) THEN refill ELSE break
     ELSE IF server_data[1] = CONTENT_TYPE_APPLICATION_DATA
       THEN IF PayloadTooLarge(server_payload_size)
              THEN fail(Error("InvalidData", "server payload too large to modify"))
            ELSE IF StagingTooLarge(server_data_end_index)
              THEN fail(Error("InvalidData", "server data too large to modify"))
            ELSE IF server_data_end_index + 4 > TLS_FRAME_MAX_LEN
              THEN \* copy_within(5..end, 9) past the end of server_data panics
                   /\ pc' = "panic"
                   /\ UNCHANGED << server_data, server_connection, result, client_out,
                                   hmac_server_random >>
            ELSE /\ client_out' = Append(client_out, Slice(r.data, 0, 9 + server_payload_size))
                 /\ server_data' = Drop(r.data, 9 + server_payload_size)
                 /\ hmac_server_random' = r.hmac
                 /\ UNCHANGED << pc, result, server_connection >>
     ELSE /\ client_out' = Append(client_out,
                               Slice(server_data, 0, TLS_HEADER_LEN + server_payload_size))
          /\ server_data' = Drop(server_data, TLS_HEADER_LEN + server_payload_size)
          /\ UNCHANGED << pc, result, server_connection, hmac_server_random >>
  /\ UNCHANGED << handshake, next_proxy_index, parsed, client_in, client_reader,
                  cover, connector, cover_in, cover_out, server_hello_frame,
                  hmac_client_data, hmac_server_data, server_app_data_xor, stream,
                  records >>
  /\ UNCHANGED wire
  /\ UNCHANGED fetched
  /\ UNCHANGED << target, port_forward, calls >>

\* what process_new_packets may leave queued after a client record was fed
ResponsesWithin(budget) == IF budget > 0 THEN LocalResponses \cup { <<>> } ELSE { <<>> }

\* a record is read from the client; it is the transition record, or it is
\* fed to the local TLS machine
LocalClientRead ==
  /\ pc = "local_client_read"
  /\ \E d \in (IF client_reader # <<>> THEN { << <<>>, <<>> >> }
               ELSE { x \in ClientDeliveries(hmac_client_data) :
                        records + DeliveredRecords(x) <= MaxRecords }) :
       LET buf == ClientBuffer(d)
           client_content_type == buf[1]
           payload == ClientPayload(buf)
           delivered == IF client_reader # <<>> THEN records
                        ELSE records + DeliveredRecords(d)
       IN
       /\ client_in' = Cat(client_in, ClientReads(d))
       /\ IF client_content_type = CONTENT_TYPE_APPLICATION_DATA /\ BLen(payload) < 4
          THEN \* &client_payload_bytes[4..] is out of range: the task panics
               /\ pc' = "panic"
               /\ client_reader' = Unparsed(buf)
               /\ records' = delivered
               /\ UNCHANGED << hmac_client_data, stream, server_connection, result >>
          ELSE IF client_content_type = CONTENT_TYPE_APPLICATION_DATA
                  /\ TagMatches(hmac_client_data, payload)
          THEN /\ hmac_client_data' = RollClient(hmac_client_data, Drop(payload, 4))
               /\ stream' = NewStream(initial_client_data(payload), hmac_client_data',
                                      hmac_server_data, <<>>)
               \* client_reader is dropped together with what it still holds
               /\ client_reader' = Unparsed(buf)
               /\ records' = delivered
               /\ pc' = "inner_handler"
               /\ UNCHANGED << server_connection, result >>
          ELSE /\ client_reader' = Unparsed(buf)
               /\ UNCHANGED << hmac_client_data, stream >>
               /\ \E processed \in BOOLEAN :
                  \E response \in ResponsesWithin(MaxRecords - delivered) :
                    LET fed == feed_server_connection(
                                 feed_server_connection(server_connection,
                                                        ClientHeader(buf)), payload)
                    IN
                    IF processed
                    THEN /\ server_connection' = [fed EXCEPT !.pending = Cat(@, response)]
                         /\ records' = IF response = <<>> THEN delivered ELSE delivered + 1
                         /\ pc' = "local_server_write"
                         /\ UNCHANGED result
                    ELSE /\ server_connection' = fed
                         /\ records' = delivered
                         /\ result' = LocalFailed(Error("InvalidData",
                                        "failed to process pre-auth client packets"))
                         /\ pc' = "error"
  /\ UNCHANGED << handshake, next_proxy_index, parsed, client_out, cover, connector,
                  cover_in, cover_out, server_hello_frame, hmac_server_random,
                  hmac_server_data, server_app_data_xor, server_data >>
  /\ UNCHANGED wire
  /\ UNCHANGED fetched
  /\ UNCHANGED << target, port_forward, calls >>

\* the steps of the handshake, up to the ShadowTlsStream
Handshake ==
  \/ ReadClientHello \/ Setup \/ RemoteConnect \/ RemoteServerHello
  \/ TeeServer \/ TeeClient \/ LocalStart \/ LocalServerWrite \/ LocalClientRead

\* one connection whose inner handler returns without using the stream
Next == Handshake \/ InnerHandlerForwards
Spec == Init /\ [][Next]_vars

\* the same over every result of the inner handler and every configuration
\* of the target
NextHandOff == Handshake \/ InnerHandler
SpecHandOff == Init /\ [][NextHandOff]_vars

\* one connection up to the inner handler's reads from and writes to the
\* stream, its return left out
NextStream == Handshake \/ StreamRead \/ StreamWrite
SpecStream == Init /\ [][NextStream]_vars

\* the connection up to its connect to the cover, beside other connections
\* of the same listener
NextListener ==
  \/ ReadClientHello \/ Setup \/ RemoteConnect \/ RemoteServerHello \/ LocalStart
  \/ OtherConnection
SpecListener == Init /\ [][NextListener]_vars

\* read_client_hello on ClientHellos of every extension list, and the checks
\* of the set-up on what it parsed
NextParse == ReadClientHelloFrom(ParseHellos) \/ Setup
SpecParse == Init /\ [][NextParse]_vars

(* ----------------------- PortForwardServerHandler ---------------------- *)
\* the calls of setup_server_stream followed on one handler
MaxCalls == 4

\* a task calls setup_server_stream(&self, server_stream); before records
\* the calls that had returned by then
EnterSetupServerStream ==
  /\ Len(calls) < MaxCalls
  /\ calls' = Append(calls,
                [at |-> "entered", value |-> Pending, target_index |-> -1,
                 location |-> "",
                 before |-> { c \in 1..Len(calls) : calls[c].at = "returned" }])
  /\ UNCHANGED port_forward

\* variant: no branch for a single target, the counter is advanced by every
\* call
ChooseLocationAlwaysCounts ==
  \E c \in 1..Len(calls) :
    /\ calls[c].at = "entered"
    /\ LET target_index == port_forward.next_target_index IN
       /\ port_forward' = [port_forward EXCEPT !.next_target_index = target_index + 1]
       /\ calls' = [calls EXCEPT
                      ![c].at = "chosen",
                      ![c].target_index = target_index,
                      ![c].location =
                        port_forward.targets[
                          (target_index % Len(port_forward.targets)) + 1]]
\* let location = if self.targets.len() == 1 { &self.targets[0] } else {
\* fetch_add(1, Relaxed); &self.targets[target_index % self.targets.len()] }
\* (targets[i + 1] is the code's targets[i])
ChooseLocation ==
  \E c \in 1..Len(calls) :
    /\ calls[c].at = "entered"
    /\ IF Len(port_forward.targets) = 1
       THEN /\ calls' = [calls EXCEPT ![c].at = "chosen",
                                      ![c].location = port_forward.targets[1]]
            /\ UNCHANGED port_forward
       ELSE LET target_index == port_forward.next_target_index IN
            /\ port_forward' = [port_forward EXCEPT !.next_target_index = target_index + 1]
            /\ calls' = [calls EXCEPT
                           ![c].at = "chosen",
                           ![c].target_index = target_index,
                           ![c].location =
                             port_forward.targets[
                               (target_index % Len(port_forward.targets)) + 1]]

\* Ok(TcpServerSetupResult::TcpForward { remote_location: location.clone(),
\* stream: server_stream, .. })
ReturnTcpForward ==
  \E c \in 1..Len(calls) :
    /\ calls[c].at = "chosen"
    /\ calls' = [calls EXCEPT
                   ![c].at = "returned",
                   ![c].value =
                     [status |-> "ok", err |-> NoError,
                      value |-> [stream |-> c, need_initial_flush |-> FALSE,
                                 override_proxy_provider |-> "Unspecified",
                                 variant |-> "TcpForward",
                                 remote_location |-> calls[c].location,
                                 connection_success_response |-> "None",
                                 initial_remote_data |-> "None"]]]
    /\ UNCHANGED port_forward

\* a handler with one, two or three targets, no call made yet
InitForward ==
  /\ port_forward \in { PortForwardNew(<< "a:1" >>), PortForwardNew(<< "a:1", "b:2" >>),
                        PortForwardNew(<< "a:1", "b:2", "c:3" >>) }
  /\ calls = <<>>
  /\ target = NewTarget(PASSWORD)
  /\ handshake = "Remote"
  /\ next_proxy_index = 0
  /\ pc = "read_client_hello"
  /\ parsed = ClientHelloErr(NoError)
  /\ client_in = <<>> /\ client_reader = <<>> /\ client_out = <<>>
  /\ cover = "none" /\ connector = -1 /\ cover_in = <<>> /\ cover_out = <<>>
  /\ server_hello_frame = <<>>
  /\ hmac_server_random = NoHmac /\ hmac_client_data = NoHmac
  /\ hmac_server_data = NoHmac /\ server_app_data_xor = <<>>
  /\ server_connection = [fed |-> <<>>, pending |-> <<>>, written |-> <<>>]
  /\ server_data = <<>>
  /\ stream = NoStream
  /\ result = Pending
  /\ records = 0
  /\ wire = NoWire
  /\ fetched = <<>>
\* the handler holds no connection of the ShadowTLS listener
ConnectionUntouched ==
  UNCHANGED << handshake, next_proxy_index, pc, parsed, client_in, client_reader,
               client_out, cover, connector, cover_in, cover_out, server_hello_frame,
               hmac_server_random, hmac_client_data, hmac_server_data,
               server_app_data_xor, server_connection, server_data, stream, result,
               records, wire, fetched, target >>
\* calls from any number of tasks, interleaved at will
NextForward ==
  \/ EnterSetupServerStream /\ ConnectionUntouched
  \/ ChooseLocation /\ ConnectionUntouched
  \/ ReturnTcpForward /\ ConnectionUntouched
SpecForward == InitForward /\ [][NextForward]_vars

\* the connection as setup_remote_handshake enters its loop: the tagged
\* ClientHello went to connector 0, the cover's ServerHello to the client
InitTee ==
  /\ target = NewTarget(PASSWORD)
  /\ port_forward = PortForwardNew(<< "a:1" >>) /\ calls = <<>>
  /\ handshake = "Remote"
  /\ next_proxy_index = 1
  /\ pc = "tee"
  /\ parsed = read_client_hello(HelloGood)
  /\ client_in = HelloGood /\ client_reader = <<>>
  /\ client_out = << ServerHelloGood >>
  /\ cover = "open" /\ connector = 0 /\ cover_in = ServerHelloGood
  /\ cover_out = << read_client_hello(HelloGood).client_hello_frame >>
  /\ server_hello_frame = ServerHelloGood
  /\ hmac_server_random =
       ContextServerRandom(parse_server_hello(ServerHelloGood).server_random)
  /\ hmac_client_data =
       ContextClientData(parse_server_hello(ServerHelloGood).server_random)
  /\ hmac_server_data =
       ContextServerData(parse_server_hello(ServerHelloGood).server_random)
  /\ server_app_data_xor = XorKey(parse_server_hello(ServerHelloGood).server_random)
  /\ server_connection = [fed |-> <<>>, pending |-> <<>>, written |-> <<>>]
  /\ server_data = <<>>
  /\ stream = NoStream
  /\ result = Pending
  /\ records = 0
  /\ wire = NoWire
  /\ fetched = << Fetch(TRUE, 0) >>

\* that connection with the tee loop followed one await at a time, the peers
\* sending their records header first, up to the return of the inner handler
NextTee ==
  \/ CoverSends \/ CoverDelivers \/ ClientSends \/ ClientDelivers
  \/ SelectServer \/ ReadServerPayload \/ WriteServerFrame \/ FlushServerFrame
  \/ SelectClient \/ ReadClientPayload \/ WriteClientFrame \/ FlushClientFrame
  \/ ShutdownCover \/ TransportFails \/ InnerHandlerForwards
\* a peer that began a record delivers the rest of it; an await whose
\* operation can complete completes; select! polls its branches in random
\* order, so a branch that is ready again and again is taken. The two
\* payload reads are enabled exactly when the payload is at hand and end
\* that condition when they happen, so their weak fairness is written with
\* the condition
TeeFairness ==
  /\ WF_vars(CoverDelivers) /\ WF_vars(ClientDelivers)
  /\ []<>~ServerPayloadAtHand /\ []<>~ClientPayloadAtHand
  /\ WF_vars(WriteServerFrame) /\ WF_vars(FlushServerFrame)
  /\ WF_vars(WriteClientFrame) /\ WF_vars(FlushClientFrame)
  /\ WF_vars(ShutdownCover)
  /\ SF_vars(SelectServer) /\ SF_vars(SelectClient)
SpecTee == InitTee /\ [][NextTee]_vars /\ TeeFairness

(* ============================== properties ============================== *)
\* the errors setup_shadowtls_server_stream returns before any handshake
PreludeErrors ==
  { Error("InvalidData", m) :
      m \in { "client did not send a 32-byte session id",
              "client does not support TLS1.3",
              "expected client TLS record protocol 1.0 (major/minor 3.1)",
              "expected client TLS content protocol 1.2 (major/minor 3.3)",
              "hmac tag mismatch" } }
PreludeDone == pc \notin { "read_client_hello", "rejected_hello", "setup" }
PreludeRejected == pc = "error" /\ result.err \in PreludeErrors

\* HMAC-SHA1 under the listener's password over a whole message, first 4 bytes
Tag4(message) == SubSeq(HmacSign([key |-> PASSWORD, data |-> message]), 1, 4)

\* a ClientHello that carries a 32-byte session id and passes the version and
\* TLS 1.3 checks
TagIsDecisive ==
  /\ parsed.parsed_digest.some
  /\ parsed.supports_tls13
  /\ parsed.client_hello_record_legacy_version_major = 3
  /\ parsed.client_hello_record_legacy_version_minor = 1
  /\ parsed.client_hello_content_version_major = 3
  /\ parsed.client_hello_content_version_minor = 3
\* frame[digest_start..digest_end] and the tag over the frame with it zeroed
CandidateTag ==
  Slice(parsed.client_hello_frame,
        parsed.parsed_digest.client_hello_digest_start_index,
        parsed.parsed_digest.client_hello_digest_end_index)
ExpectedTag ==
  Tag4(Cat(Slice(parsed.client_hello_frame, 5,
                 parsed.parsed_digest.client_hello_digest_start_index),
           Cat(<< 0, 0, 0, 0 >>,
               Drop(parsed.client_hello_frame,
                    parsed.parsed_digest.client_hello_digest_end_index))))

\* C1: for a ClientHello with a 32-byte session id that passed the version
\* and TLS 1.3 checks, the set-up goes on to the handshake exactly when the
\* 4 candidate bytes equal the first 4 bytes of the HMAC over the frame from
\* offset 5 with those bytes zeroed; otherwise it returns InvalidData
\* "hmac tag mismatch".
C1_TagDecides ==
  (PreludeDone /\ TagIsDecisive) =>
    IF CandidateTag = ExpectedTag
    THEN ~PreludeRejected
    ELSE pc = "error" /\ result.err = Error("InvalidData", "hmac tag mismatch")
C1_Witness ==
  /\ PreludeDone /\ TagIsDecisive /\ CandidateTag # ExpectedTag
  /\ result.err.msg = "hmac tag mismatch"

\* C2: when a prelude check rejects the connection, nothing was written to
\* the client, no cover connection was opened, the connector counter was not
\* advanced and no connector was picked.
C2_RejectionHasNoEffects ==
  PreludeRejected =>
    /\ client_out = <<>>
    /\ cover = "none" /\ cover_out = <<>> /\ cover_in = <<>>
    /\ next_proxy_index = 0 /\ connector = -1
    /\ server_connection.fed = <<>>
    /\ ~stream.made
C2_Witness ==
  /\ PreludeRejected /\ handshake = "Remote"
  /\ result.err.msg = "client does not support TLS1.3"

\* the ServerRandom of the ServerHello that was passed on: frame[11..43]
SentServerRandom == Slice(server_hello_frame, 11, 43)

RECURSIVE MaskedUpTo(_, _)
\* the masked payloads of the ApplicationData records among writes 2..k to
\* the client (write 1 is the ServerHello), concatenated
MaskedUpTo(w, k) ==
  IF k <= 1 THEN <<>>
  ELSE Cat(MaskedUpTo(w, k - 1),
           IF w[k][1] = CONTENT_TYPE_APPLICATION_DATA THEN Drop(w[k], 9) ELSE <<>>)
\* the ApplicationData records written to the client during the handshake
ReframedWrites ==
  { k \in 2..Len(client_out) : client_out[k][1] = CONTENT_TYPE_APPLICATION_DATA }

\* C3 (as stated): the 4 bytes in front of every ApplicationData record sent
\* to the client during the handshake are the digest of the "S"-labelled
\* rolling context (H0 fed with ServerRandom, then "S") after it absorbed the
\* masked payload.
C3_TagFromLabelledContext ==
  \A k \in ReframedWrites :
    Slice(client_out[k], 5, 9)
      = Tag4(Cat(Cat(SentServerRandom, << 83 >>), MaskedUpTo(client_out, k)))
\* C3 (amended): the 4 bytes in front of every ApplicationData record sent to
\* the client during the handshake are the digest of the unlabelled rolling
\* context (H0 fed with ServerRandom only) after it absorbed the masked
\* payload of that record and of the records before it; the "S"-labelled
\* context reaches the stream without having absorbed anything else.
C3_TagFromServerRandomContext ==
  /\ \A k \in ReframedWrites :
       Slice(client_out[k], 5, 9)
         = Tag4(Cat(SentServerRandom, MaskedUpTo(client_out, k)))
  /\ stream.made =>
       stream.hmac_server = [key |-> PASSWORD, data |-> Cat(SentServerRandom, << 83 >>)]
C3_Witness ==
  /\ Cardinality(ReframedWrites) >= 2
  /\ stream.made

RECURSIVE RecordsOf(_)
\* a byte stream cut into TLS records by their length fields
RecordsOf(bytes) ==
  IF BLen(bytes) < TLS_HEADER_LEN THEN <<>>
  ELSE LET n == TLS_HEADER_LEN + U16(bytes[4], bytes[5])
       IN  << Take(bytes, n) >> \o RecordsOf(Drop(bytes, n))

\* C4: an ApplicationData record from the server whose payload is 65532
\* bytes or longer is never re-framed: every re-framed record written to the
\* client carries a length field that is exactly its payload length plus 4
\* (the bytes behind its header), and the handshake ends with InvalidData
\* "server payload too large to modify" instead.
C4_LengthFieldNeverWraps ==
  /\ \A k \in ReframedWrites :
       U16(client_out[k][4], client_out[k][5]) = BLen(client_out[k]) - TLS_HEADER_LEN
  /\ (handshake = "Remote" /\ server_hello_frame # <<>>) =>
       LET cs == RecordsOf(cover_in) IN
       \A k \in 2..Len(cs) :
         (cs[k][1] = CONTENT_TYPE_APPLICATION_DATA /\ U16(cs[k][4], cs[k][5]) >= 65532)
           => /\ k = Len(cs)
              /\ pc = "error"
              /\ result.err.cause = "InvalidData"
              /\ result.err.cause_msg = "server payload too large to modify"

RECURSIVE SupportedVersionsOf(_, _)
\* the value of the first supported_versions extension (type 43) in the
\* extension list e read from 0-based offset pos; <<>> when there is none
SupportedVersionsOf(e, pos) ==
  IF pos + 4 > Len(e) THEN <<>>
  ELSE LET type == U16(e[pos + 1], e[pos + 2])
           len == U16(e[pos + 3], e[pos + 4])
       IN  IF type = 43 THEN SubSeq(e, pos + 5, pos + 4 + len)
           ELSE SupportedVersionsOf(e, pos + 4 + len)
\* the extension list of a ServerHello frame with a 32-byte session id
ServerHelloExtensions(f) == SubSeq(f, 82, Len(f))

\* C5: a ServerHello is accepted only if its supported_versions extension
\* value is exactly 0x0304.
C5_OnlyTls13Accepted ==
  server_hello_frame # <<>> =>
    SupportedVersionsOf(ServerHelloExtensions(server_hello_frame), 0) = << 3, 4 >>

\* the records the client sent after its ClientHello, those the record loop
\* has taken up so far, and the transition test of the protocol: type 0x17
\* and payload[..4] = digest of (H0, ServerRandom, "C", payload[4..])
ClientRecordsSent == RecordsOf(Drop(client_in, BLen(parsed.client_hello_frame)))
TakenUp == Len(ClientRecordsSent) - Len(RecordsOf(client_reader))
Matching(rec) ==
  /\ rec[1] = CONTENT_TYPE_APPLICATION_DATA
  /\ BLen(rec) >= TLS_HEADER_LEN + 4
  /\ Slice(rec, 5, 9) = Tag4(Cat(Cat(SentServerRandom, << 67 >>), Drop(rec, 9)))
FirstMatching ==
  LET rs == ClientRecordsSent
      M == { i \in 1..Len(rs) : Matching(rs[i]) }
  IN  IF M = {} THEN 0 ELSE CHOOSE i \in M : \A j \in M : i <= j

\* C6: the transition happens on a client record exactly when that record is
\* of type 0x17 and its first 4 payload bytes equal the digest of a clone of
\* H_c fed with payload[4..]; it happens on the first such record, and no
\* record of another type causes it even when its first 4 bytes match.
C6_TransitionOnFirstMatch ==
  server_hello_frame # <<>> =>
    IF stream.made
    THEN /\ FirstMatching > 0
         /\ LET rec == ClientRecordsSent[FirstMatching] IN
            Take(stream.initial_read_data, BLen(rec) - 9) = Drop(rec, 9)
    ELSE \A j \in 1..TakenUp : ~Matching(ClientRecordsSent[j])
C6_Witness ==
  /\ stream.made /\ FirstMatching = 2
  /\ ClientRecordsSent[1][1] = CONTENT_TYPE_HANDSHAKE
  /\ Slice(ClientRecordsSent[1], 5, 9)
       = Tag4(Cat(Cat(SentServerRandom, << 67 >>), Drop(ClientRecordsSent[1], 9)))

\* the client records the remote loop dealt with to the end as non-matching:
\* all before the transition record; before the transition all taken up,
\* less the one the task was working on when it aborted
PassedOn ==
  IF stream.made THEN FirstMatching - 1
  ELSE IF pc = "panic" /\ TakenUp > 0 THEN TakenUp - 1
  ELSE TakenUp

BytesBehind(i) ==
  LET rs == ClientRecordsSent IN
  Drop(Drop(client_in, BLen(parsed.client_hello_frame)),
       PrefixLen([k \in 1..i |-> Fill(BLen(rs[k]))], i))

\* C8: in the local variant the bytes that were buffered behind the
\* transition record are handed to the ShadowTlsStream as initial read data,
\* as in the remote variant.
C8_LocalHandsOnBufferedBytes ==
  (handshake = "Local" /\ stream.made) =>
    stream.initial_read_data
      = Cat(Drop(ClientRecordsSent[FirstMatching], 9), BytesBehind(FirstMatching))
\* the remote variant does so
C8_RemoteHandsOnBufferedBytes ==
  (handshake = "Remote" /\ stream.made) =>
    stream.initial_read_data
      = Cat(Drop(ClientRecordsSent[FirstMatching], 9), BytesBehind(FirstMatching))

\* C9: in the local variant the staged bytes are never moved up by 4 past
\* the end of the staging buffer: when the staged length plus the 4 tag
\* bytes exceeds the buffer the handshake has returned an InvalidData error
\* instead, also when the record in front is itself small enough to re-frame.
C9_ShiftStaysInBuffer ==
  ~ /\ handshake = "Local" /\ pc = "panic" /\ server_hello_frame # <<>>
    /\ BLen(server_data) >= TLS_HEADER_LEN
    /\ server_data[1] = CONTENT_TYPE_APPLICATION_DATA
    /\ U16(server_data[4], server_data[5]) + 4 <= U16_MAX
    /\ BLen(server_data) >= TLS_HEADER_LEN + U16(server_data[4], server_data[5])
    /\ BLen(server_data) + 4 > TLS_FRAME_MAX_LEN

\* C10: when the connector cannot connect to the cover server the set-up
\* fails with an error of kind ConnectionRefused.
C10_ConnectFailureKind ==
  (handshake = "Remote" /\ pc = "error" /\ connector # -1 /\ cover = "none") =>
    result.err.kind = "ConnectionRefused"

\* the session id length byte of the ClientHello that was read (frame[43])
SessionIdLen == parsed.client_hello_frame[44]

\* C11 (as stated): a ClientHello whose session id is not 32 bytes long is
\* rejected with InvalidData "hmac tag mismatch".
C11_ShortSessionIdIsTagMismatch ==
  (PreludeDone /\ SessionIdLen # 32) =>
    pc = "error" /\ result.err = Error("InvalidData", "hmac tag mismatch")
\* C11 (amended): a ClientHello whose session id is not 32 bytes long is
\* rejected with InvalidData "client did not send a 32-byte session id",
\* before anything else happens on the connection.
C11_ShortSessionIdRejected ==
  (PreludeDone /\ SessionIdLen # 32) =>
    /\ pc = "error"
    /\ result.err = Error("InvalidData", "client did not send a 32-byte session id")
    /\ client_out = <<>> /\ cover = "none"
C11_Witness ==
  PreludeDone /\ SessionIdLen = 16 /\ pc = "error"

\* what the cover server, or the local TLS machine, produced so far, cut
\* into records; record 1 is the ServerHello, record k is behind write k
ServerProduced == IF handshake = "Remote" THEN cover_in ELSE server_connection.written
ProducedRecords == RecordsOf(ServerProduced)
\* the low 16 bits of n, big-endian
LengthField(n) == << (n \div 256) % 256, n % 256 >>
\* payload p masked with the 32-byte key X from X[0] on: byte i becomes
\* p[i] XOR X[i mod 32]
Masked(p, X) ==
  [i \in 1..Len(p) |->
     IF IsFill(p[i]) THEN p[i]
     ELSE XorByte(p[i], X[((PrefixLen(p, i) - 1) % 32) + 1])]

\* C12: a 0x17 record (type, v_major, v_minor, L, payload p) from the server
\* side is written to the client as type, v_major, v_minor, the 16-bit
\* big-endian L + 4, 4 tag bytes, then L bytes with byte i = p[i] XOR
\* X[i mod 32], the key starting at X[0] in every record; the written record
\* is L + 9 bytes long.
C12_ReframedRecordShape ==
  \A k \in ReframedWrites :
    LET w == client_out[k]
        r == ProducedRecords[k]
        L == U16(r[4], r[5])
    IN  /\ r[1] = CONTENT_TYPE_APPLICATION_DATA
        /\ Take(w, 3) = Take(r, 3)
        /\ << w[4], w[5] >> = LengthField(L + 4)
        /\ BLen(w) = L + 9
        /\ Len(server_app_data_xor) = 32
        /\ Drop(w, 9) = Masked(Drop(r, TLS_HEADER_LEN), server_app_data_xor)
C12_Witness ==
  /\ handshake = "Local"
  /\ Cardinality(ReframedWrites) >= 2
  /\ \A k \in ReframedWrites : BLen(client_out[k]) = 34 + 9

\* every record written to the client that is not ApplicationData equals
\* the record produced at the same position
OtherRecordsVerbatim ==
  \A k \in 1..Len(client_out) :
    client_out[k][1] # CONTENT_TYPE_APPLICATION_DATA => client_out[k] = ProducedRecords[k]
\* a step that writes such a record to the client after the ServerHello
WritesOtherRecord ==
  /\ Len(client_out) >= 1
  /\ Len(client_out') = Len(client_out) + 1
  /\ client_out'[Len(client_out')][1] # CONTENT_TYPE_APPLICATION_DATA

\* C13: server-to-client records whose content type is not 0x17 are written
\* to the client byte for byte as the cover server or the local TLS machine
\* produced them, and the step that handles one leaves the three MAC
\* contexts and the XOR key unchanged.
C13_OtherRecordsUntouched ==
  /\ []OtherRecordsVerbatim
  /\ [][WritesOtherRecord =>
          UNCHANGED << hmac_server_random, hmac_client_data, hmac_server_data,
                       server_app_data_xor >>]_vars
C13_Witness ==
  /\ Len(client_out) >= 3
  /\ client_out[2][1] = CONTENT_TYPE_APPLICATION_DATA
  /\ client_out[3] = ChangeCipherSpec

\* C14: the server-direction context handed to the ShadowTlsStream is H0 fed
\* with ServerRandom then "S" and nothing else, however many records were
\* re-framed during the handshake; so the first body B the inner handler
\* writes leaves as 0x17 0x03 0x03 be16(|B| + 4) T B with
\* T = first 4 bytes of HMAC(K_mac, ServerRandom || "S" || B).
C14_ServerContextAtTransition ==
  stream.made =>
    /\ stream.hmac_server.key = PASSWORD
    /\ stream.hmac_server.data = Cat(SentServerRandom, << 83 >>)
    /\ Len(stream.written) >= 1 =>
         LET B == Drop(stream.written[1], 9) IN
         stream.written[1]
           = << 23, 3, 3 >> \o LengthField(BLen(B) + 4)
             \o Tag4(Cat(Cat(SentServerRandom, << 83 >>), B)) \o B
C14_Witness ==
  /\ stream.made
  /\ Cardinality(ReframedWrites) >= 1
  /\ Len(stream.written) >= 1
  /\ Drop(stream.written[1], 9) = << 112, 111, 110, 103 >>

\* the transition record: the first matching record the client sent
TransitionRecord == ClientRecordsSent[FirstMatching]

\* C15: the client-direction context handed to the ShadowTlsStream has
\* absorbed, after ServerRandom || "C", payload[4..] of the transition record
\* and then that record's 4-byte tag: the state in which validating the
\* record as a post-transition read would leave the context.
C15_ClientContextAtTransition ==
  stream.made =>
    /\ stream.hmac_client.key = PASSWORD
    /\ stream.hmac_client.data
         = Cat(Cat(SentServerRandom, << 67 >>),
               Cat(Drop(TransitionRecord, 9), Slice(TransitionRecord, 5, 9)))
    /\ LET read == StreamReadRecord(
                     [key |-> PASSWORD, data |-> Cat(SentServerRandom, << 67 >>)],
                     TransitionRecord)
       IN  read.ok /\ read.hmac = stream.hmac_client
C15_Witness ==
  /\ stream.made /\ handshake = "Local"
  /\ Drop(TransitionRecord, 9) = << 112, 105 >>

\* C16: the result setup_shadowtls_server_stream returns is the inner
\* handler's result, except that override_proxy_provider is the target's
\* value exactly when the inner handler left it unspecified and the target's
\* value is not unspecified; no other field is changed.
C16_HandOffKeepsResult ==
  pc = "done" =>
    LET r == result.inner
        t == result.target_override_proxy_provider
        v == result.value
    IN  /\ DOMAIN v = DOMAIN r
        /\ \A f \in DOMAIN r \ { "override_proxy_provider" } : v[f] = r[f]
        /\ v.override_proxy_provider
             = IF r.override_proxy_provider = "Unspecified" /\ t # "Unspecified"
               THEN t ELSE r.override_proxy_provider
C16_Witness ==
  /\ pc = "done"
  /\ result.inner = MultiDirectionalUdp(FALSE, "Unspecified")
  /\ result.target_override_proxy_provider = "One(target)"
  /\ result.value.override_proxy_provider = "One(target)"

\* the states of a connection
Phase(at) ==
  IF at = "read_client_hello" THEN "READ_CLIENT_HELLO"
  ELSE IF at = "setup" THEN "VERIFY_TAG"
  ELSE IF at \in { "remote_connect", "remote_server_hello", "tee" } THEN "REMOTE_TEE"
  ELSE IF at \in { "local_start", "local_server_write", "local_client_read" }
    THEN "LOCAL_DRIVE"
  ELSE IF at \in { "inner_handler", "done" } THEN "POST_TRANSITION"
  ELSE "FAILED"
PhaseOrder ==
  { << "READ_CLIENT_HELLO", "VERIFY_TAG" >>, << "VERIFY_TAG", "REMOTE_TEE" >>,
    << "VERIFY_TAG", "LOCAL_DRIVE" >>, << "REMOTE_TEE", "POST_TRANSITION" >>,
    << "LOCAL_DRIVE", "POST_TRANSITION" >> }
Ended == pc \in { "rejected_hello", "error", "panic", "done" }

\* the inner handler has the stream only with the tag verified and a
\* transition record recognised
HandlerOnlyAfterTransition ==
  Phase(pc) = "POST_TRANSITION" =>
    /\ TagIsDecisive /\ CandidateTag = ExpectedTag
    /\ stream.made /\ FirstMatching > 0

\* C17: a connection moves only READ_CLIENT_HELLO -> VERIFY_TAG ->
\* (REMOTE_TEE or LOCAL_DRIVE) -> POST_TRANSITION or, from any of them, to a
\* failure; the inner handler is entered once, and only with the tag
\* verified and a transition record recognised; once the set-up has failed
\* (or returned) nothing more happens on the connection.
C17_ConnectionStateOrder ==
  /\ []HandlerOnlyAfterTransition
  /\ [][ /\ ~Ended
         /\ \/ Phase(pc') = Phase(pc)
            \/ << Phase(pc), Phase(pc') >> \in PhaseOrder
            \/ Phase(pc') = "FAILED"
         /\ pc = "inner_handler" => pc' \in { "inner_handler", "done", "error" }
         /\ pc' = "inner_handler" => (pc = "inner_handler" <=> stream.made)
       ]_vars
C17_Witness ==
  pc = "done" /\ handshake = "Local" /\ stream.made /\ result.status = "ok"

\* the extension list of a ClientHello frame with a 32-byte session id, one
\* cipher suite and one compression method
ClientHelloExtensions(f) == SubSeq(f, 85, Len(f))
\* the ClientHello that was read lists version 0x0304 in supported_versions
ListsTls13 ==
  LET body == SupportedVersionsOf(ClientHelloExtensions(parsed.client_hello_frame), 0)
  IN  \E i \in 2..(Len(body) - 1) : i % 2 = 0 /\ body[i] = 3 /\ body[i + 1] = 4

C18_WitnessNoTag ==
  /\ PreludeDone /\ SessionIdLen = 32 /\ ~ListsTls13
  /\ CandidateTag # ExpectedTag

\* the session id of the ClientHello that was read (frame offsets 44..76)
SessionIdOfFrame == Slice(parsed.client_hello_frame, 44, 44 + SessionIdLen)
\* read_client_hello has returned a parsed ClientHello
ClientHelloParsed == pc # "read_client_hello" /\ parsed.err = NoError

\* C19: for a 32-byte session id read_client_hello records its last 4 bytes
\* as the candidate tag, with digest_end = digest_start + 4 = 76 and the frame
\* bytes between the two indices equal to the candidate; for any other
\* session id length it records no digest.
C19_CandidateTagLocation ==
  ClientHelloParsed =>
    LET d == parsed.parsed_digest IN
    IF SessionIdLen = 32
    THEN /\ d.some
         /\ d.client_hello_digest = Slice(SessionIdOfFrame, 28, 32)
         /\ d.client_hello_digest_start_index = 72
         /\ d.client_hello_digest_end_index = d.client_hello_digest_start_index + 4
         /\ Slice(parsed.client_hello_frame, d.client_hello_digest_start_index,
                  d.client_hello_digest_end_index) = d.client_hello_digest
    ELSE ~d.some
C19_Witness ==
  /\ ClientHelloParsed /\ SessionIdLen = 32
  /\ parsed.parsed_digest.client_hello_digest # << 0, 0, 0, 0 >>
  /\ parsed.parsed_digest.client_hello_digest
       # Slice(SessionIdOfFrame, 0, 4)
C19_WitnessNoDigest ==
  ClientHelloParsed /\ SessionIdLen = 16 /\ ~parsed.parsed_digest.some

\* the initial read data were handed to the inner handler in one piece and in
\* front of every read from the transport
InitialDataFirst ==
  /\ stream.read_buffer # <<>> =>
       /\ stream.reads = <<>> /\ stream.transport_read = <<>>
       /\ stream.read_buffer = stream.initial_read_data
  /\ \A i \in 1..Len(stream.reads) :
       /\ stream.reads[i].from = "initial" =>
            i = 1 /\ stream.reads[i].data = stream.initial_read_data
       /\ stream.reads[i].from = "transport" =>
            \/ stream.initial_read_data = <<>>
            \/ i > 1 /\ stream.reads[1].from = "initial"
  /\ stream.transport_read # <<>> =>
       \E i \in 1..Len(stream.reads) : stream.reads[i].from = "transport"

\* the stream as setup_remote_handshake / setup_local_handshake returned it
AtTransition == pc = "inner_handler" /\ StreamOps = 0

\* C20: the ShadowTlsStream returned at the transition is seeded with
\* payload[4..] of the transition record, followed in the remote variant by
\* the bytes buffered in the client reader behind that record; its initial
\* read data never change afterwards, and the inner handler is given them
\* before the stream reads anything further from the transport.
C20_InitialReadData ==
  /\ [](AtTransition =>
          stream.initial_read_data
            = Cat(Drop(TransitionRecord, 9),
                  IF handshake = "Remote" THEN BytesBehind(FirstMatching) ELSE <<>>))
  /\ [](stream.made => InitialDataFirst)
  /\ [][stream.made => stream'.initial_read_data = stream.initial_read_data]_vars
C20_Witness ==
  /\ handshake = "Remote" /\ stream.made
  /\ Drop(TransitionRecord, 9) # <<>> /\ BytesBehind(FirstMatching) # <<>>
  /\ Len(stream.reads) = 2
  /\ stream.reads[1].from = "initial" /\ stream.reads[2].from = "transport"
  /\ stream.reads[2].ok

\* what the server-direction context has absorbed with the first i records
\* the stream wrote: each body followed by its tag
RECURSIVE WrittenChain(_)
WrittenChain(i) ==
  IF i = 0 THEN <<>>
  ELSE Cat(WrittenChain(i - 1),
           Cat(Drop(stream.written[i], 9), Slice(stream.written[i], 5, 9)))

\* C21: every write of a body B by the inner handler puts exactly one record
\* 17 03 03 BE16(|B| + 4) T B on the wire, T being the first 4 bytes of the
\* HMAC over ServerRandom, "S", every earlier body with its tag, in order,
\* and B; two consecutive writes of the same body carry different tags.
C21_WritesCarryRollingTag ==
  stream.made =>
    /\ \A i \in 1..Len(stream.written) :
         LET w == stream.written[i]
             B == Drop(w, 9)
         IN  /\ Len(RecordsOf(w)) = 1 /\ RecordsOf(w)[1] = w
             /\ w = << 23, 3, 3 >> \o LengthField(BLen(B) + 4)
                    \o Tag4(Cat(Cat(Cat(SentServerRandom, << 83 >>),
                                    WrittenChain(i - 1)), B))
                    \o B
    /\ \A i \in 1..(Len(stream.written) - 1) :
         Drop(stream.written[i], 9) = Drop(stream.written[i + 1], 9)
           => Slice(stream.written[i], 5, 9) # Slice(stream.written[i + 1], 5, 9)
C21_Witness ==
  /\ stream.made /\ handshake = "Remote"
  /\ Len(stream.written) = 2
  /\ Drop(stream.written[1], 9) = Drop(stream.written[2], 9)
  /\ Drop(stream.written[2], 9) = << 112, 111, 110, 103 >>

\* the reads the stream served from the transport, and the records it took
TransportReads == SelectSeq(stream.reads, LAMBDA r : r.from = "transport")
TransportRecords == RecordsOf(stream.transport_read)
\* what H_c has absorbed since the transition with the first k records read:
\* payload[4..] and tag of each record that was delivered
RECURSIVE ReadChain(_)
ReadChain(k) ==
  IF k = 0 THEN <<>>
  ELSE LET rec == TransportRecords[k] IN
       IF TransportReads[k].ok
       THEN Cat(ReadChain(k - 1), Cat(Drop(rec, 9), Slice(rec, 5, 9)))
       ELSE ReadChain(k - 1)

\* C22: a record read from the client after the transition is delivered only
\* if its content type is 0x17, its payload has at least 4 bytes and its
\* first 4 bytes are the digest of a clone of H_c fed with payload[4..];
\* otherwise the read fails with InvalidData and delivers nothing; on success
\* exactly payload[4..] is delivered and H_c absorbs payload[4..], then the tag.
C22_ReadsVerifyTag ==
  stream.made =>
    /\ Len(TransportReads) = Len(TransportRecords)
    /\ \A k \in 1..Len(TransportReads) :
         LET rec == TransportRecords[k]
             rd == TransportReads[k]
             H_c == Cat(stream.hmac_client.data, ReadChain(k - 1))
             valid == /\ rec[1] = 23
                      /\ BLen(rec) >= TLS_HEADER_LEN + 4
                      /\ Slice(rec, 5, 9) = Tag4(Cat(H_c, Drop(rec, 9)))
         IN  /\ rd.ok <=> valid
             /\ rd.ok => rd.data = Drop(rec, 9) /\ rd.err = ""
             /\ ~rd.ok => rd.data = <<>> /\ rd.err = "InvalidData"
    /\ stream.h_c.key = PASSWORD
    /\ stream.h_c.data = Cat(stream.hmac_client.data, ReadChain(Len(TransportReads)))
C22_Witness ==
  /\ stream.made
  /\ Len(TransportReads) = 2
  /\ TransportReads[1].ok /\ TransportReads[1].data = << 110, 103 >>
  /\ ~TransportReads[2].ok
  /\ TransportRecords[2][1] = CONTENT_TYPE_HANDSHAKE
C22_WitnessShort ==
  /\ stream.made /\ Len(TransportReads) = 1 /\ ~TransportReads[1].ok
  /\ BLen(TransportRecords[1]) = TLS_HEADER_LEN + 2

\* an extension list holds an extension of the given type
RECURSIVE HasExtension(_, _, _)
HasExtension(e, pos, type) ==
  IF pos + 4 > Len(e) THEN FALSE
  ELSE IF U16(e[pos + 1], e[pos + 2]) = type THEN TRUE
  ELSE HasExtension(e, pos + 4 + U16(e[pos + 3], e[pos + 4]), type)
\* the client opened with a ClientHello handshake record that has a 32-byte
\* session id and no server_name extension
SentHelloWithoutSni ==
  /\ pc # "read_client_hello"
  /\ client_in[1] = 22 /\ client_in[6] = 1 /\ client_in[44] = 32
  /\ ~HasExtension(ClientHelloExtensions(Take(client_in, 5 + U16(client_in[4], client_in[5]))),
                   0, 0)
\* server names a ClientHello might have carried: none, "a", "bc"
ServerNames == { <<>>, << << 97 >> >>, << << 98, 99 >> >> }

\* the ClientHello is read and the set-up has just let it through or turned
\* it down; nothing later changes what was parsed or decided
AroundDecision ==
  pc \in { "rejected_hello", "setup", "error", "remote_connect", "local_start" }
\* C23: a well-formed ClientHello without an SNI extension is accepted:
\* read_client_hello succeeds on it with requested_server_name = None, it is
\* let through whenever its tag and versions are right, and the decision of
\* setup_shadowtls_server_stream is the same whatever the server name is.
C23_SniIsNotLookedAt ==
  AroundDecision =>
    /\ SentHelloWithoutSni =>
         /\ parsed.err = NoError /\ pc # "rejected_hello"
         /\ parsed.requested_server_name = <<>>
         /\ (PreludeDone /\ TagIsDecisive /\ CandidateTag = ExpectedTag) => ~PreludeRejected
    /\ ClientHelloParsed =>
         \A n \in ServerNames :
           Prelude([parsed EXCEPT !.requested_server_name = n]) = Prelude(parsed)
    /\ (ClientHelloParsed /\ PreludeDone) => (PreludeRejected <=> Prelude(parsed) # NoError)
C23_Witness ==
  /\ SentHelloWithoutSni /\ PreludeDone /\ ~PreludeRejected
  /\ CandidateTag = ExpectedTag
  /\ pc \in { "remote_connect", "local_start" }

\* the masked payloads of the cover's ApplicationData records 2..k
RECURSIVE MaskedFromCover(_)
MaskedFromCover(k) ==
  IF k <= 1 THEN <<>>
  ELSE Cat(MaskedFromCover(k - 1),
           IF ProducedRecords[k][1] = CONTENT_TYPE_APPLICATION_DATA
           THEN Masked(Drop(ProducedRecords[k], TLS_HEADER_LEN), server_app_data_xor)
           ELSE <<>>)
\* in the tee loop the tags sent to the client follow from the cover's
\* records alone, and what became of each client record from the client's
\* records alone
OwnDirectionDecides ==
  (handshake = "Remote" /\ server_hello_frame # <<>>) =>
    /\ \A k \in ReframedWrites :
         Slice(client_out[k], 5, 9) = Tag4(Cat(SentServerRandom, MaskedFromCover(k)))
    /\ stream.made <=> \E j \in 1..TakenUp : Matching(ClientRecordsSent[j])
    /\ \A j \in 1..(Len(cover_out) - 1) :
         cover_out[j + 1] = ClientRecordsSent[j] /\ ~Matching(ClientRecordsSent[j])
\* a step of the tee loop that handles a record from the cover, from the client
HandlesServerRecord == pc = "tee" /\ cover_in' # cover_in
HandlesClientRecord == pc = "tee" /\ (client_in' # client_in \/ client_reader' # client_reader)

\* C24: in the tee loop, under every interleaving of the two directions, the
\* fate of each client record (forwarded or transition) and the tag put on
\* each server record follow from the records of the same direction only;
\* handling a server record never changes H_c, and handling a client record
\* never changes the server-side rolling context.
C24_DirectionsAreIndependent ==
  /\ []OwnDirectionDecides
  /\ [][ /\ HandlesServerRecord =>
              /\ hmac_client_data' = hmac_client_data
              /\ cover_out' = cover_out /\ stream' = stream
              /\ ~HandlesClientRecord
         /\ HandlesClientRecord =>
              /\ hmac_server_random' = hmac_server_random
              /\ hmac_server_data' = hmac_server_data
              /\ server_app_data_xor' = server_app_data_xor
              /\ client_out' = client_out
       ]_vars
\* client, server, client, server: a forwarded record, a re-framed record,
\* the transition record behind it
C24_Witness ==
  /\ handshake = "Remote" /\ stream.made
  /\ Len(cover_out) = 2 /\ FirstMatching = 2
  /\ Cardinality(ReframedWrites) = 1 /\ Len(client_out) = 2

\* ---- C25 ----
\* the records each peer has sent in the tee loop, in the order it sent them
\* (a record it has begun counts with the rest it still holds back)
SentByCover ==
  RecordsOf(Cat(Cat(Drop(cover_in, BLen(server_hello_frame)), wire.from_cover),
                wire.cover_rest))
SentByClient ==
  RecordsOf(Cat(Cat(Drop(client_in, BLen(parsed.client_hello_frame)),
                    wire.from_client), wire.client_rest))
\* the records of each direction the loop has dealt with: a client record is
\* forwarded to the cover or ends the loop, a cover record is forwarded to
\* the client
ClientRecordsHandled == Len(cover_out) - 1
CoverRecordsForwarded == Len(client_out) - 1
\* one whole record: a header and as many bytes behind it as its length
\* field says
WholeRecord(w) ==
  /\ BLen(w) >= TLS_HEADER_LEN
  /\ BLen(w) = TLS_HEADER_LEN + U16(w[4], w[5])
\* what the client gets for the cover's record rec: the record itself, or for
\* ApplicationData its header with the length raised by 4, a tag and the
\* masked payload
ForwardOf(rec, w) ==
  IF rec[1] = CONTENT_TYPE_APPLICATION_DATA
  THEN /\ Take(w, 3) = Take(rec, 3)
       /\ Drop(w, TLS_HEADER_LEN + 4)
            = Masked(Drop(rec, TLS_HEADER_LEN), server_app_data_xor)
  ELSE w = rec
\* records the loop has begun and not yet written
RecordsInHand ==
  (wire.server_begun - CoverRecordsForwarded)
  + (wire.client_begun - ClientRecordsHandled)
InOrderAndWhole ==
  /\ \A k \in 1..CoverRecordsForwarded :
       /\ WholeRecord(client_out[k + 1])
       /\ ForwardOf(SentByCover[k], client_out[k + 1])
  /\ \A k \in 1..ClientRecordsHandled :
       /\ WholeRecord(cover_out[k + 1])
       /\ cover_out[k + 1] = SentByClient[k]
  /\ pc = "tee" =>
       /\ RecordsInHand \in { 0, 1 }
       /\ wire.at = "select" => RecordsInHand = 0 /\ ~wire.unflushed
       /\ wire.at \in { "server_flush", "client_flush" } =>
            RecordsInHand = 0 /\ wire.unflushed
BeginsRecord ==
  \/ wire'.server_begun # wire.server_begun
  \/ wire'.client_begun # wire.client_begun
\* C25: what the loop wrote to the client is, record for record and in the
\* same order, what the cover sent, and what it wrote to the cover is what
\* the client sent; every write is one whole record; the loop holds at most
\* one record at a time, and it begins a record of either direction only
\* when every record it began before is written and flushed
C25_OneRecordAtATimeInOrder ==
  /\ []InOrderAndWhole
  /\ [][BeginsRecord =>
          wire.at = "select" /\ ~wire.unflushed /\ RecordsInHand = 0]_vars
\* two records of the cover and one of the client went through, one of the
\* cover's re-framed
C25_Witness ==
  /\ pc = "tee" /\ wire.at = "select"
  /\ CoverRecordsForwarded = 2 /\ ClientRecordsHandled = 1
  /\ client_out[2] # client_out[3]
  /\ client_out[3][1] = CONTENT_TYPE_APPLICATION_DATA
  /\ wire.client_begun = 1 /\ wire.server_begun = 2

\* ---- C26 ----
\* every record a peer began to send has been dealt with
CaughtUp ==
  /\ ClientRecordsHandled = wire.client_sent
  /\ CoverRecordsForwarded = wire.cover_sent
TransportErrors ==
  UNION { TeeFailures(at) :
            at \in { "select", "server_payload", "server_write", "server_flush",
                     "client_payload", "client_write", "client_flush" } }
\* C27: the remote tee loop ends only by returning the ShadowTlsStream when a
\* transition record is recognised or by returning the error of a failed
\* read, write or flush on one of the two transports; records that arrive
\* whole and do not match never end it
C27_EndsByTransitionOrTransportError ==
  pc # "tee" =>
    \/ stream.made
    \/ /\ pc = "error"
       /\ \E e \in TransportErrors : result = RemoteFailed(e)

\* ---- C28 ----
\* the first record the cover server sent on this connection
FirstCoverRecord ==
  Take(cover_in, TLS_HEADER_LEN + U16(cover_in[4], cover_in[5]))
\* C28: in the remote variant the first write to the client is the record
\* first read from the cover, byte for byte, and it is there only if
\* parse_server_hello accepted that record; when the record was read and
\* parse_server_hello did not accept it, nothing is written to the client
C28_ServerHelloRelayedAfterParse ==
  handshake = "Remote" =>
    /\ client_out # <<>> =>
         /\ cover_in # <<>>
         /\ client_out[1] = FirstCoverRecord
         /\ parse_server_hello(FirstCoverRecord).status = "ok"
    /\ (cover_in # <<>> /\ parse_server_hello(FirstCoverRecord).status # "ok") =>
         client_out = <<>>
\* the ServerHello went to the client and more records of the cover after it
C28_Witness ==
  /\ handshake = "Remote" /\ Len(client_out) = 3
  /\ client_out[1] = ServerHelloGood /\ client_out[1] = FirstCoverRecord
  /\ BLen(cover_in) > BLen(FirstCoverRecord)
\* the cover answered with a record parse_server_hello refuses
C28_WitnessRefused ==
  /\ handshake = "Remote" /\ pc = "error" /\ cover_in # <<>>
  /\ parse_server_hello(FirstCoverRecord).status = "err"
  /\ client_out = <<>>

\* ---- C29 ----
\* this connection got past the tag verification
Verified == parsed.err = NoError /\ Prelude(parsed) = NoError /\ pc # "setup"
OwnFetches == SelectSeq(fetched, LAMBDA f : f.own)
\* C29: on a listener with the remote handshake the k-th connection
\* (counting from 0) that passes the tag verification gets counter value k
\* and uses connector k mod n; no two connections get the same counter
\* value, however their steps interleave, and a connection that is rejected
\* takes none
C29_RoundRobinConnector ==
  handshake = "Remote" =>
    /\ \A k \in 1..Len(fetched) :
         /\ fetched[k].index = k - 1
         /\ fetched[k].connector = (k - 1) % NumConnectors
    /\ \A j, k \in 1..Len(fetched) :
         fetched[j].index = fetched[k].index => j = k
    /\ next_proxy_index = Len(fetched)
    /\ Len(OwnFetches) = (IF Verified THEN 1 ELSE 0)
    /\ Verified => connector = OwnFetches[1].connector
\* this connection took its index between two others and a fourth one came
\* after a full round of the connectors
C29_Witness ==
  /\ handshake = "Remote" /\ Verified
  /\ Len(fetched) = NumConnectors + 2
  /\ fetched[2].own /\ connector = 1
  /\ fetched[NumConnectors + 1].connector = 0

\* ---- C30 ----
\* the orchestrator waits for the next record of the client
WaitsForClient == handshake = "Local" /\ pc = "local_client_read"
\* the staging buffer holds a complete record
StagedRecord ==
  /\ BLen(server_data) >= TLS_HEADER_LEN
  /\ BLen(server_data) >= TLS_HEADER_LEN + U16(server_data[4], server_data[5])
\* the complete records the local TLS machine has produced, in its order
CompleteProduced == SelectSeq(RecordsOf(server_connection.written), WholeRecord)
\* C30: in the local variant the orchestrator waits for the next client
\* record only when the TLS machine wants no write and the staging buffer
\* holds no complete record, and by then every complete record the machine
\* has produced is written to the client once, in the order of production
C30_DrainBeforeBlock ==
  WaitsForClient =>
    /\ ~WantsWrite(server_connection)
    /\ ~StagedRecord
    /\ Len(client_out) = Len(CompleteProduced)
    /\ \A k \in 1..Len(client_out) : ForwardOf(CompleteProduced[k], client_out[k])
\* the orchestrator waits again after the machine answered a client record:
\* the three records of its first flight and its answer are written
C30_Witness ==
  /\ WaitsForClient
  /\ BLen(server_connection.fed) > BLen(parsed.client_hello_frame)
  /\ Len(client_out) = 4

\* ---- C31 ----
\* the bytes of the first n records the client sent after its ClientHello
BytesOfFirst(n) ==
  LET sent == Drop(client_in, BLen(parsed.client_hello_frame))
  IN  Take(sent, BLen(sent) - BLen(BytesBehind(n)))
\* what the local TLS machine was fed after the ClientHello frame
FedAfterHello == Drop(server_connection.fed, BLen(parsed.client_hello_frame))
\* the local variant past its ServerHello
LocalRuns == handshake = "Local" /\ server_hello_frame # <<>>
\* the client records taken up and not recognised as the transition record
NotRecognised == IF stream.made THEN FirstMatching - 1 ELSE TakenUp
\* C31: in the local variant every client record that is not recognised as
\* the transition record is fed to the local TLS machine whole (header, then
\* payload), once and in arrival order: what the machine was fed after the
\* ClientHello is exactly the bytes of those records; none of them is written
\* to the client (every write to the client is the forward of a record the
\* machine produced) and none is dropped.
C31_MismatchFedToLocalMachine ==
  LocalRuns =>
    /\ FedAfterHello = BytesOfFirst(NotRecognised)
    /\ Len(client_out) <= Len(CompleteProduced)
    /\ \A k \in 1..Len(client_out) : ForwardOf(CompleteProduced[k], client_out[k])

\* ---- C32 ----
\* the loop has recognised the transition record
Recognised == BLen(wire.client_payload_bytes) >= 4
\* C32: in the remote variant the shutdown of the cover is requested only
\* after the transition record was recognised, and the ShadowTlsStream is
\* returned by the step that ends that shutdown, not before; whether the
\* shutdown succeeded or failed, the stream is returned; once the shutdown is
\* requested nothing more is read from or written to the cover
C32_CoverShutdownAtTransition ==
  /\ [](cover = "shutdown" => Recognised)
  /\ [](stream.made => cover = "shutdown")
  /\ [](wire.shutdown # "none" => stream.made)
  /\ [][(stream'.made /\ ~stream.made) => wire.at = "shutdown" /\ cover = "open"]_vars
  /\ [][cover = "shutdown" => UNCHANGED << cover, cover_in, cover_out >>]_vars
\* the shutdown failed, the stream was returned and handed to the inner
\* handler, which returned
C32_Witness ==
  /\ wire.shutdown = "failed" /\ cover = "shutdown"
  /\ stream.made /\ pc = "done"
  /\ Len(cover_out) = 2

\* ---- C33 ----
\* the ClientHello record as it was read: content type 0x16, record version
\* 3.1, body version 3.3
HelloHeaderOk ==
  /\ client_in[1] = CONTENT_TYPE_HANDSHAKE
  /\ client_in[2] = 3 /\ client_in[3] = 1
  /\ client_in[10] = 3 /\ client_in[11] = 3
ReachedHandshake == PreludeDone /\ ~PreludeRejected
\* C33: a connection reaches the handshake only if its ClientHello record has
\* content type 0x16 and record version 3.1 and its body has version 3.3;
\* with any other combination it is rejected with InvalidData, by
\* read_client_hello or by a check of the set-up that stands before the
\* verification of the tag, whether or not the tag is valid
C33_HeaderAndVersionsChecked ==
  /\ ReachedHandshake => HelloHeaderOk
  /\ (pc \notin { "read_client_hello", "setup" } /\ ~HelloHeaderOk) =>
       \/ pc = "rejected_hello" /\ parsed.err.kind = "InvalidData"
       \/ /\ PreludeRejected
          /\ result.err.kind = "InvalidData"
          /\ result.err.msg # "hmac tag mismatch"
\* a ClientHello with record version 3.3 and a valid tag was turned away by
\* the set-up
C33_Witness ==
  /\ PreludeRejected
  /\ client_in[1] = CONTENT_TYPE_HANDSHAKE /\ client_in[3] = 3
  /\ result.err.msg = "expected client TLS record protocol 1.0 (major/minor 3.1)"
  /\ CandidateTag = ExpectedTag

\* ---- C34 ----
\* a supported_versions extension body lists the pair 03 04: one length
\* byte, then that many bytes of pairs, all inside the body
BodyListsTls13(body) ==
  /\ Len(body) >= 1
  /\ \E k \in 0..((body[1] \div 2) - 1) :
       /\ 2 * k + 3 <= Len(body)
       /\ body[2 * k + 2] = 3 /\ body[2 * k + 3] = 4
RECURSIVE DeclaresTls13(_, _)
\* the extension list e read from pos on with every extension taken by its
\* declared length: some supported_versions extension lists 03 04
DeclaresTls13(e, pos) ==
  IF pos + 4 > Len(e) THEN FALSE
  ELSE LET type == U16(e[pos + 1], e[pos + 2])
           len == U16(e[pos + 3], e[pos + 4])
       IN  IF pos + 4 + len > Len(e) THEN FALSE
           ELSE \/ type = 43 /\ BodyListsTls13(SubSeq(e, pos + 5, pos + 4 + len))
                \/ DeclaresTls13(e, pos + 4 + len)
\* C34: when read_client_hello returns a ParsedClientHello, supports_tls13 is
\* true exactly when a supported_versions extension of the ClientHello, found
\* by taking every extension by its declared length, lists the pair 03 04,
\* whatever extensions stand before it
C34_Tls13FlagByDeclaredLengths ==
  ClientHelloParsed =>
    (parsed.supports_tls13
       <=> DeclaresTls13(ClientHelloExtensions(parsed.client_hello_frame), 0))

\* ---- C35 ----
\* H0 and the XOR seed context as they are built from the password alone
ListenerAsBuilt ==
  /\ target.initial_hmac = [key |-> PASSWORD, data |-> <<>>]
  /\ target.initial_xor_context = PASSWORD
\* the contexts and the XOR key of this connection are those of the password
\* and of the ServerRandom it was sent
OwnContextsFromPassword ==
  LET h == [key |-> PASSWORD, data |-> SentServerRandom] IN
  /\ hmac_server_random.key = PASSWORD
  /\ Take(hmac_server_random.data, 32) = SentServerRandom
  /\ hmac_client_data = [h EXCEPT !.data = Cat(@, << 67 >>)]
  /\ hmac_server_data = [h EXCEPT !.data = Cat(@, << 83 >>)]
  /\ server_app_data_xor = XorContextFinish(Cat(PASSWORD, SentServerRandom))
\* C35: whatever number of other connections the listener has served before
\* and during this one, H0 and the XOR seed context are those built from the
\* password alone, the ClientHello of this connection is let through exactly
\* when its tag is the one under the password, and its contexts and XOR key
\* are those of the password and its own ServerRandom
C35_ListenerStateUnchanged ==
  /\ ListenerAsBuilt
  /\ (PreludeDone /\ TagIsDecisive) => (~PreludeRejected <=> CandidateTag = ExpectedTag)
  /\ (server_hello_frame # <<>> /\ pc \in { "tee", "local_server_write" }) =>
       OwnContextsFromPassword
\* other connections came before the ClientHello of this one was verified and
\* after, and this one has its contexts
C35_Witness ==
  /\ OtherConnections = MaxOtherConnections
  /\ fetched[2].own /\ ~fetched[1].own
  /\ pc = "tee" /\ server_hello_frame # <<>>
  /\ hmac_client_data.data = Cat(SentServerRandom, << 67 >>)

\* ---- C36 ----
\* the handshake is under way: the orchestrator's buffers are alive
InHandshake ==
  pc \in { "read_client_hello", "setup", "remote_connect", "remote_server_hello",
           "tee", "local_start", "local_server_write", "local_client_read" }
RECURSIVE FramesFrom(_)
\* the writes to the client from the k-th on, end to end
FramesFrom(k) ==
  IF k > Len(client_out) THEN <<>> ELSE Cat(client_out[k], FramesFrom(k + 1))
\* server_frame without its clear(): every record of the cover server since
\* the ServerHello stays in it
server_frame_never_cleared ==
  IF handshake = "Remote" THEN FramesFrom(2) ELSE <<>>
\* let mut server_frame = vec![]; cleared when the next header of the cover
\* server is read, then filled with the record and written: between two
\* passes it holds the frame written last
server_frame ==
  IF handshake = "Remote" /\ Len(client_out) > 1
  THEN client_out[Len(client_out)] ELSE <<>>
\* let mut client_frame = vec![]; the same for the client's records, which
\* the loop forwards to the cover server
client_frame_kept ==
  IF handshake = "Remote" /\ pc = "tee" /\ Len(cover_out) > 1
  THEN cover_out[Len(cover_out)] ELSE <<>>
\* StreamReader::new_with_buffer_size(TLS_FRAME_MAX_LEN) for the client and
\* for the cover server, allocate_vec(TLS_FRAME_MAX_LEN) for the local
\* staging buffer: each is held at its full size from its allocation on
ReaderBuffers ==
  TLS_FRAME_MAX_LEN
  + (IF \/ handshake = "Remote" /\ pc \in { "remote_server_hello", "tee" }
        \/ handshake = "Local" /\ pc \in { "local_server_write", "local_client_read" }
     THEN TLS_FRAME_MAX_LEN ELSE 0)
\* the bytes the orchestrator holds: the reader buffers (or the staging
\* buffer), the two frame buffers and the two saved hello frames
HeldBytes ==
  ReaderBuffers + BLen(server_frame) + BLen(client_frame_kept)
  + BLen(parsed.client_hello_frame) + BLen(server_hello_frame)
\* C36 as stated: at every point of the handshake the bytes held are at most
\* 2 * (5 + 65535) plus a constant (1024 here; any constant smaller than a
\* record gives the same).
C36_TwoBuffersBound ==
  InHandshake => HeldBytes <= 2 * TLS_FRAME_MAX_LEN + 1024
\* C36: at every point of the handshake each frame buffer and each saved
\* hello frame holds at most one record, 5 + 65535 bytes and 4 more for the
\* tag of a re-framed one, so that with the two buffers of 5 + 65535 bytes
\* the bytes held are at most 6 * (5 + 65535) + 8.
C36_SixFramesBound ==
  InHandshake =>
    /\ BLen(server_frame) <= TLS_FRAME_MAX_LEN + 4
    /\ BLen(client_frame_kept) <= TLS_FRAME_MAX_LEN + 4
    /\ BLen(parsed.client_hello_frame) <= TLS_FRAME_MAX_LEN
    /\ BLen(server_hello_frame) <= TLS_FRAME_MAX_LEN
    /\ HeldBytes <= 6 * TLS_FRAME_MAX_LEN + 8
\* both reader buffers are allocated and server_frame holds a re-framed
\* record of more than 65000 bytes
C36_Witness ==
  /\ InHandshake /\ handshake = "Remote" /\ pc = "tee"
  /\ BLen(server_frame) > 65000
  /\ HeldBytes > 2 * TLS_FRAME_MAX_LEN + 1024

\* ---- C37 ----
\* what the rolling server-side context absorbed after the ServerRandom
AbsorbedAfterPrefix == Drop(hmac_server_random.data, BLen(SentServerRandom))
\* C37: once the ServerHello went out, the context that tags the re-framed
\* records holds its prefix (the ServerRandom) followed by exactly the masked
\* payloads of the ApplicationData records written so far, in order, computed
\* here from the records as the cover server or the local TLS machine
\* produced them: no tag, no header and no record of another type is in it;
\* the tag of the n-th re-framed record is the digest over the prefix and the
\* masked payloads of re-framed records 1..n.
C37_TagChainAbsorbsMaskedPayloads ==
  (server_hello_frame # <<>> /\ client_out # <<>>) =>
    /\ hmac_server_random.key = PASSWORD
    /\ Take(hmac_server_random.data, BLen(SentServerRandom)) = SentServerRandom
    /\ AbsorbedAfterPrefix = MaskedFromCover(Len(client_out))
    /\ \A k \in ReframedWrites :
         /\ ProducedRecords[k][1] = CONTENT_TYPE_APPLICATION_DATA
         /\ Slice(client_out[k], 5, 9)
              = HmacDigest([key |-> PASSWORD,
                            data |-> Cat(SentServerRandom, MaskedFromCover(k))])
\* the local variant wrote a record of another type and two re-framed records
\* behind it: the context holds the two masked payloads and nothing else
C37_Witness ==
  /\ handshake = "Local" /\ Len(client_out) = 4
  /\ client_out[2][1] # CONTENT_TYPE_APPLICATION_DATA
  /\ ReframedWrites = { 3, 4 }
  /\ AbsorbedAfterPrefix = Cat(Drop(client_out[3], 9), Drop(client_out[4], 9))

\* ---- C38 ----
\* a client ApplicationData record whose payload is shorter than the tag
ShortClientRecord(rec) ==
  rec[1] = CONTENT_TYPE_APPLICATION_DATA /\ BLen(rec) < TLS_HEADER_LEN + 4
\* the j-th client record went the way of a record that does not match:
\* written whole to the cover server, or fed whole to the local TLS machine
WentOnAsMismatch(j) ==
  IF handshake = "Remote"
  THEN Len(cover_out) > j /\ cover_out[j + 1] = ClientRecordsSent[j]
  ELSE Take(FedAfterHello, BLen(BytesOfFirst(j))) = BytesOfFirst(j)
\* C38: every client ApplicationData record with a payload shorter than 4
\* bytes that the record loop of the handshake has taken up went on as a
\* non-matching record (forwarded to the cover, fed to the local TLS machine)
\* or the connection ended with an error value; the task never aborts on it.
C38_ShortClientRecordHandled ==
  \A j \in 1..TakenUp :
    ShortClientRecord(ClientRecordsSent[j]) =>
      /\ pc # "panic"
      /\ WentOnAsMismatch(j) \/ (pc = "error" /\ result.status = "err")

\* ---- C39 ----
\* the record handed to parse_server_hello: the first one of the cover
\* server or of the local TLS machine, read whole by its length field
ServerHelloRecord == ProducedRecords[1]
\* C39: whenever a whole first record of the server side was read (5 bytes
\* and as many as its header declares, also none or fewer than a ServerHello
\* needs), parse_server_hello returns Ok or Err of kind InvalidData on it and
\* the connection goes on or fails with that error: no index outside the
\* frame is read.
C39_ParseServerHelloTotal ==
  Len(ProducedRecords) >= 1 =>
    LET r == parse_server_hello(ServerHelloRecord) IN
    /\ BLen(ServerHelloRecord) = TLS_HEADER_LEN + U16(ServerHelloRecord[4], ServerHelloRecord[5])
    /\ r.status \in { "ok", "err" }
    /\ r.status = "err" => r.err.kind = "InvalidData" /\ pc = "error"
    /\ r.status = "ok" => server_hello_frame = ServerHelloRecord

\* ---- C40 ----
\* the calls that have chosen their target, the counter values they obtained
Chosen == { c \in 1..Len(calls) : calls[c].at # "entered" }
NumTargets == Len(port_forward.targets)
\* C40: with more than one target the calls draw the counter values 0, 1, 2,
\* ... one each (no value twice, none left out; a call that entered after
\* another had returned draws the larger value), the call that drew k chose
\* targets[k mod n] and returns a TcpForward to it by way of its own
\* stream; with exactly one target every call chose targets[0] and the
\* counter stays as it was built.
C40_RoundRobinTargets ==
  /\ IF NumTargets > 1
     THEN /\ port_forward.next_target_index = Cardinality(Chosen)
          /\ { calls[c].target_index : c \in Chosen } = 0..(Cardinality(Chosen) - 1)
          /\ \A c \in Chosen :
               /\ calls[c].location
                    = port_forward.targets[(calls[c].target_index % NumTargets) + 1]
               /\ \A b \in calls[c].before :
                    calls[b].target_index < calls[c].target_index
     ELSE /\ port_forward.next_target_index = 0
          /\ \A c \in Chosen : calls[c].location = port_forward.targets[1]
  /\ \A c \in 1..Len(calls) :
       calls[c].at = "returned" =>
         /\ calls[c].value.status = "ok"
         /\ calls[c].value.value.variant = "TcpForward"
         /\ calls[c].value.value.remote_location = calls[c].location
         /\ calls[c].value.value.stream = c
\* three targets, four calls returned: two of them overlapped and drew their
\* values against the order of entry, the fourth came round to targets[0]
C40_Witness ==
  /\ NumTargets = 3 /\ Len(calls) = MaxCalls
  /\ \A c \in 1..Len(calls) : calls[c].at = "returned"
  /\ calls[1].target_index = 1 /\ calls[2].target_index = 0
  /\ \E c \in 1..Len(calls) :
       calls[c].target_index = 3 /\ calls[c].value.value.remote_location = "a:1"
====
